---- MODULE Spec2Model ----
(***************************************************************************)
(* A model of the paper-trading engine of trading_bot: the execution       *)
(* simulator (PaperBroker), the risk controls (DailyLimits, PositionSizer, *)
(* TradeLimiter), the ledger (AccountBalance, PnLTracker) and the per-tick *)
(* orchestration of TradingEngine (step, run, run_live).                   *)
(*                                                                         *)
(* Numbers.  The program computes in floats; the model computes in exact   *)
(* scaled integers:                                                        *)
(*   - prices are integers (a money unit per sizing quantum of base);      *)
(*   - fractions named *_pct, fee_rate and partial_fill_probability are    *)
(*     numerators over PctDen; slippage is in basis points over BpsDen;    *)
(*   - partial-fill ratios are numerators over RatioDen;                   *)
(*   - quantities are in 1/QtyScale of the sizer's quantum (the 1e-6 of    *)
(*     position_sizer.py), so that a partial exit of a partial entry is    *)
(*     exact;                                                              *)
(*   - money (balances, costs, proceeds, fees, PnL) is in 1/MoneyScale of  *)
(*     the money unit, so that fees are exact;                             *)
(*   - a take-profit / stop-loss price is kept times PctDen.               *)
(* An Optional value is the empty tuple (None) or a one-element tuple.     *)
(***************************************************************************)
EXTENDS Integers, Sequences, FiniteSets, TLC

VARIABLES
    mode,       \* the driver in use: "step", "run", "run_live"
    run_state,  \* "running", or "done" once the driver's loop has ended
    broker,     \* PaperBroker: position, _rng
    balance,    \* AccountBalance: usdt_free, btc_free, day_start_equity
    pnl,        \* PnLTracker
    limiter,    \* TradeLimiter
    last,       \* what the last tick did: its inputs, calls, fills, log line
    broker2,    \* a second PaperBroker built with the same seed
    calls,      \* the calls made on broker so far, with their results
    calls2,     \* the calls made on broker2 so far, with their results
    lim_obs,    \* the last TradeLimiter call made directly, with its history
    daily,      \* the inputs and the result of a direct can_continue call
    direct,     \* the inputs and the result of a direct call of a pure method
    pnl_obs,    \* the last PnLTracker call made directly: its argument, the
                \* tracker before it, the exits since the last mark_entry
    pc,         \* the statement of the tick body the engine is at, "idle"
                \* between ticks
    tick,       \* the locals of the tick body, the engine's state when the
                \* tick began, and how the last tick ended
    live,       \* a streaming run: its driver, where the driver is, the
                \* stream task started for feed.connect()
    hist,       \* the feed's candle count and the rolling history of a driver
    drv,        \* a driver's loop around the engine's ticks: where it is,
                \* its running flag, the ticks it began and their outcomes
    twin,       \* two engines built from one configuration, one driven by
                \* step() and one by run(), and the candles fed to them
    feed        \* LiveMarketFeed: the candle being built, the queue, the
                \* candles delivered by next_candle

core_vars == <<mode, run_state, broker, balance, pnl, limiter, last,
               broker2, calls, calls2, lim_obs, daily>>

\* the variables of the specifications of single components further down
more_vars == <<drv, twin, feed>>
aux_vars == <<direct, pnl_obs, pc, tick, live, hist, more_vars>>

vars == <<core_vars, aux_vars>>

engine_vars == <<mode, run_state, balance, pnl, last>>

None == <<>>

\* the drivers and the live feed specified further down are not in use
MoreIdle == drv = None /\ twin = None /\ feed = None

\* the components specified further down are not in use
AuxIdle ==
    /\ direct = None /\ pnl_obs = None /\ pc = None /\ tick = None
    /\ live = None /\ hist = None
    /\ MoreIdle

\* the engine and the components specified with it are not in use
CoreIdle ==
    /\ mode = None /\ run_state = None /\ broker = None /\ balance = None
    /\ pnl = None /\ limiter = None /\ last = None /\ broker2 = None
    /\ calls = None /\ calls2 = None /\ lim_obs = None /\ daily = None

not_direct_vars == <<core_vars, pnl_obs, pc, tick, live, hist, more_vars>>
Some(x) == <<x>>
IsSome(o) == o # <<>>
Get(o) == o[1]

Max(a, b) == IF b > a THEN b ELSE a
Min(a, b) == IF b < a THEN b ELSE a
Abs(x) == IF x < 0 THEN -x ELSE x

\* ------------------------------------------------------------------ units
PctDen == 100
BpsDen == 10000
RatioDen == 4
QtyScale == RatioDen * RatioDen
MoneyScale == QtyScale * PctDen

\* price * quantity, as money
Notional(price, qty) == price * qty * PctDen

\* ------------------------------------------------------------- bounds
MaxTicks == 3
MaxCalls == 3
MaxLimCalls == 4
MaxBps == 2
MaxUsdt == 60
MaxPnlCalls == 4
MaxStmtTicks == 2
MaxWarmup == 3
MaxLiveTicks == 3
MaxQueue == 2
MaxDrvTicks == 5
MaxHist == 3
MaxTripTicks == 3
MaxTwinTicks == 3
MaxFillCalls == 3
MaxFeedMsgs == 4

\* ----------------------------------------------------- configuration
fee_rate == 1
partial_fill_probability == 50
min_partial_fill_ratio == 2
max_partial_fill_ratio == 4
slippage_bps == 100
take_profit_pct == 5
stop_loss_pct == 5
risk_per_trade_pct == 20
min_notional_usdt == 10
daily_profit_cap_pct == 1
daily_loss_cap_pct == 2
max_signals_per_regime == 2
max_trades_per_day == 2
volatility_threshold == 25
trend_strength_threshold == 50
min_confidence == 60

InitialBalances == {10000, 5000}
Prices == {900, 1000, 1100}
Seeds == {3, 7, 42}
OrderIds == {1, 2}

\* ------------------------------------------------ random.Random(seed)
\* The generator is a deterministic state machine: a state, a step, and an
\* output in [0, 1) read off the state, here u / RngRes with u in 0..RngRes-1.
RngMod == 8
RngRes == 2
RngSeed(seed) == seed % RngMod
RngNext(s) == (5 * s + 3) % RngMod
RngOut(s) == (s * RngRes) \div RngMod
Random(s) == [rng |-> RngNext(s), u |-> RngOut(RngNext(s))]

\* --------------------------------------------------------- PaperBroker
NewBroker(seed) == [position |-> None, rng |-> RngSeed(seed)]

build_limit_order(oid, ts, side, price, qty) ==
    [order_id |-> oid, ts |-> ts, side |-> side, price |-> price, qty |-> qty]

\* self._rng.random() < self.partial_fill_probability
IsPartialDraw(u) == u * PctDen < partial_fill_probability * RngRes

\* self._rng.uniform(min, max) = min + (max - min) * random()
Uniform(u) ==
    min_partial_fill_ratio
        + ((max_partial_fill_ratio - min_partial_fill_ratio) * u) \div RngRes

\* A price slipped upwards whatever the side.
SlippedPriceUp(side, price) == (price * (BpsDen + slippage_bps)) \div BpsDen

\* price * (1 + slip) for BUY, price * (1 - slip) for SELL, slip = bps / 10_000
SlippedPriceAt(bps, side, price) ==
    IF side = "BUY"
    THEN (price * (BpsDen + bps)) \div BpsDen
    ELSE (price * (BpsDen - bps)) \div BpsDen

SlippedPrice(side, price) == SlippedPriceAt(slippage_bps, side, price)

\* A fill whose partial flag comes from the order's uuid instead of self._rng.
simulate_fill_unseeded(b, order) ==
    LET is_partial == order.order_id % 2 = 0
        d2 == IF is_partial THEN Random(b.rng) ELSE [rng |-> b.rng, u |-> 0]
        ratio == IF is_partial THEN Uniform(d2.u) ELSE RatioDen
        fill_qty == (order.qty * ratio) \div RatioDen
        slipped_price == SlippedPrice(order.side, order.price)
        fee == slipped_price * fill_qty * fee_rate
    IN  [broker |-> [b EXCEPT !.rng = d2.rng],
         fill |-> [order_id |-> order.order_id, ts |-> order.ts,
                   price |-> slipped_price, qty |-> fill_qty, fee |-> fee,
                   is_partial |-> is_partial]]

\* The fill of an order at a slipped price and a fee rate.
\* Result: the broker after the draws, and the fill.
FillAt(rate, slipped_price, b, order) ==
    LET d1 == Random(b.rng)
        is_partial == IsPartialDraw(d1.u)
        d2 == IF is_partial THEN Random(d1.rng) ELSE d1
        ratio == IF is_partial THEN Uniform(d2.u) ELSE RatioDen
        fill_qty == (order.qty * ratio) \div RatioDen
        fee == slipped_price * fill_qty * rate
    IN  [broker |-> [b EXCEPT !.rng = d2.rng],
         fill |-> [order_id |-> order.order_id, ts |-> order.ts,
                   price |-> slipped_price, qty |-> fill_qty, fee |-> fee,
                   is_partial |-> is_partial]]

simulate_fill(b, order) ==
    FillAt(fee_rate, SlippedPrice(order.side, order.price), b, order)

\* The guard of try_open_long without its open-position test.
OpenGuardQtyOnly(b, qty) == qty <= 0

\* The guard of try_open_long without its quantity test.
OpenGuardPositionOnly(b, qty) == IsSome(b.position)

\* if self.position is not None or qty <= 0
OpenGuard(b, qty) == IsSome(b.position) \/ qty <= 0

\* Result: the broker after the call, and the fill or None.
try_open_long(b, oid, ts, price, qty, tp_pct, sl_pct) ==
    IF OpenGuard(b, qty)
    THEN [broker |-> b, fill |-> None]
    ELSE LET sf == simulate_fill(b, build_limit_order(oid, ts, "BUY", price, qty))
             fill == sf.fill
             pos == [entry_ts |-> ts, entry_price |-> fill.price,
                     qty |-> fill.qty,
                     tp_price |-> fill.price * (PctDen + tp_pct),
                     sl_price |-> fill.price * (PctDen - sl_pct)]
         IN  [broker |-> [sf.broker EXCEPT !.position = Some(pos)],
              fill |-> Some(fill)]

\* Triggers that leave out the trigger prices themselves.
ExitReasonBeyond(pos, market_price) ==
    IF market_price * PctDen > pos.tp_price THEN Some("take_profit")
    ELSE IF market_price * PctDen < pos.sl_price THEN Some("stop_loss")
    ELSE None

ExitReason(pos, market_price) ==
    IF market_price * PctDen >= pos.tp_price THEN Some("take_profit")
    ELSE IF market_price * PctDen <= pos.sl_price THEN Some("stop_loss")
    ELSE None

\* An exit that keeps the unfilled remainder of a partial fill open.
PositionKeepResidual(pos, fill) ==
    IF fill.qty < pos.qty THEN Some([pos EXCEPT !.qty = @ - fill.qty]) ELSE None

\* An exit that leaves the position in place.
PositionKeptOpen(pos, fill) == Some(pos)

\* self.position = None
PositionAfterExit(pos, fill) == None

\* Result: the broker after the call, the fill or None, the reason or None.
check_exit(b, oid, ts, market_price) ==
    IF ~IsSome(b.position)
    THEN [broker |-> b, fill |-> None, reason |-> None]
    ELSE LET pos == Get(b.position)
             reason == ExitReason(pos, market_price)
         IN  IF ~IsSome(reason)
             THEN [broker |-> b, fill |-> None, reason |-> None]
             ELSE LET sf == simulate_fill(b,
                              build_limit_order(oid, ts, "SELL", market_price, pos.qty))
                  IN  [broker |-> [sf.broker EXCEPT
                                     !.position = PositionAfterExit(pos, sf.fill)],
                       fill |-> Some(sf.fill), reason |-> reason]

\* ------------------------------------------------------ AccountBalance
NewBalance(start_usdt) ==
    [usdt_free |-> start_usdt, btc_free |-> 0, day_start_equity |-> start_usdt]

equity(bal, mark_price) == bal.usdt_free + Notional(mark_price, bal.btc_free)

\* ---------------------------------------------------------- PnLTracker
\* max_drawdown is the exact fraction num / den.
NewPnL(start_usdt) ==
    [realized_pnl |-> 0, wins |-> 0, losses |-> 0, peak_equity |-> start_usdt,
     max_drawdown |-> [num |-> 0, den |-> 1], trades_closed |-> 0,
     edge_off_ticks |-> 0, total_ticks |-> 0, daily_trade_count |-> 0,
     entry_value |-> None]

\* a/b < c/d for a, c >= 0 and b, d > 0, without forming a product
RECURSIVE FracLT(_, _, _, _)
FracLT(a, b, c, d) ==
    IF a \div b # c \div d THEN a \div b < c \div d
    ELSE IF c % d = 0 THEN FALSE
    ELSE IF a % b = 0 THEN TRUE
    ELSE FracLT(d, c % d, b, a % b)

\* A ledger that does not record the entry.
mark_entry_dropped(p, gross_cost) == p

mark_entry(p, gross_cost) == [p EXCEPT !.entry_value = Some(gross_cost)]

\* An exit that books a trade also when no entry value is pending.
mark_exit_unguarded(p, gross_proceeds) ==
    LET trade_pnl == gross_proceeds - (IF IsSome(p.entry_value) THEN Get(p.entry_value) ELSE 0)
    IN  [p EXCEPT !.realized_pnl = @ + trade_pnl,
                  !.trades_closed = @ + 1,
                  !.daily_trade_count = @ + 1,
                  !.wins = IF trade_pnl >= 0 THEN @ + 1 ELSE @,
                  !.losses = IF trade_pnl >= 0 THEN @ ELSE @ + 1,
                  !.entry_value = None]

\* An exit that counts a trade without gain or loss as a loss.
mark_exit_zero_loses(p, gross_proceeds) ==
    IF ~IsSome(p.entry_value)
    THEN p
    ELSE LET trade_pnl == gross_proceeds - Get(p.entry_value)
         IN  [p EXCEPT !.realized_pnl = @ + trade_pnl,
                       !.trades_closed = @ + 1,
                       !.daily_trade_count = @ + 1,
                       !.wins = IF trade_pnl > 0 THEN @ + 1 ELSE @,
                       !.losses = IF trade_pnl > 0 THEN @ ELSE @ + 1,
                       !.entry_value = None]

\* An exit that leaves the day's trade count alone.
mark_exit_day_uncounted(p, gross_proceeds) ==
    IF ~IsSome(p.entry_value)
    THEN p
    ELSE LET trade_pnl == gross_proceeds - Get(p.entry_value)
         IN  [p EXCEPT !.realized_pnl = @ + trade_pnl,
                       !.trades_closed = @ + 1,
                       !.wins = IF trade_pnl >= 0 THEN @ + 1 ELSE @,
                       !.losses = IF trade_pnl >= 0 THEN @ ELSE @ + 1,
                       !.entry_value = None]

mark_exit(p, gross_proceeds) ==
    IF ~IsSome(p.entry_value)
    THEN p
    ELSE LET trade_pnl == gross_proceeds - Get(p.entry_value)
         IN  [p EXCEPT !.realized_pnl = @ + trade_pnl,
                       !.trades_closed = @ + 1,
                       !.daily_trade_count = @ + 1,
                       !.wins = IF trade_pnl >= 0 THEN @ + 1 ELSE @,
                       !.losses = IF trade_pnl >= 0 THEN @ ELSE @ + 1,
                       !.entry_value = None]

\* A tracker that keeps the current drawdown in place of the largest.
update_equity_current(p, eq) ==
    LET peak == Max(p.peak_equity, eq)
        dd == [num |-> peak - eq, den |-> peak]
    IN  IF peak > 0
        THEN [p EXCEPT !.peak_equity = peak, !.max_drawdown = dd]
        ELSE [p EXCEPT !.peak_equity = peak]

update_equity(p, eq) ==
    LET peak == Max(p.peak_equity, eq)
        dd == [num |-> peak - eq, den |-> peak]
    IN  IF peak > 0
        THEN [p EXCEPT !.peak_equity = peak,
                       !.max_drawdown =
                           IF FracLT(@.num, @.den, dd.num, dd.den) THEN dd ELSE @]
        ELSE [p EXCEPT !.peak_equity = peak]

mark_edge_state(p, is_edge_on) ==
    [p EXCEPT !.total_ticks = @ + 1,
              !.edge_off_ticks = IF is_edge_on THEN @ ELSE @ + 1]

\* --------------------------------------------------------- DailyLimits
NewDailyLimits(profit_cap, loss_cap) ==
    [daily_profit_cap_pct |-> profit_cap, daily_loss_cap_pct |-> loss_cap]

\* A profit cap that stops only once the gain is above it.
ProfitCapAbove(dl, start_balance, current_equity) ==
    (current_equity - start_balance) * PctDen > dl.daily_profit_cap_pct * start_balance

ProfitCapHit(dl, start_balance, current_equity) ==
    (current_equity - start_balance) * PctDen >= dl.daily_profit_cap_pct * start_balance

LossCapHit(dl, start_balance, current_equity) ==
    (current_equity - start_balance) * PctDen
        <= (0 - Abs(dl.daily_loss_cap_pct)) * start_balance

can_continue(dl, start_balance, current_equity) ==
    IF start_balance <= 0
    THEN [allowed |-> FALSE, reason |-> "invalid_start_balance"]
    ELSE IF ProfitCapHit(dl, start_balance, current_equity)
    THEN [allowed |-> FALSE, reason |-> "daily_profit_cap_hit"]
    ELSE IF LossCapHit(dl, start_balance, current_equity)
    THEN [allowed |-> FALSE, reason |-> "daily_loss_cap_hit"]
    ELSE [allowed |-> TRUE, reason |-> "ok"]

\* ------------------------------------------------------- PositionSizer
\* available_usdt is money; the result is a quantity: whole quanta, times
\* QtyScale.  notional is kept times PctDen.
\* A sizer that rounds the quantity to the next quantum up.
size_rounded_up(available_usdt, price) ==
    IF available_usdt <= 0 \/ price <= 0
    THEN 0
    ELSE LET notional == Max(min_notional_usdt * MoneyScale * PctDen,
                             available_usdt * risk_per_trade_pct)
             unit == price * MoneyScale * PctDen
         IN  IF notional > available_usdt * PctDen
             THEN 0
             ELSE ((notional + unit - 1) \div unit) * QtyScale

\* The size of a sizer built with the given risk share and least notional.
SizeWith(risk_pct, min_notional, available_usdt, price) ==
    IF available_usdt <= 0 \/ price <= 0
    THEN 0
    ELSE LET notional == Max(min_notional * MoneyScale * PctDen,
                             available_usdt * risk_pct)
         IN  IF notional > available_usdt * PctDen
             THEN 0
             ELSE (notional \div (price * MoneyScale * PctDen)) * QtyScale

size(available_usdt, price) ==
    SizeWith(risk_per_trade_pct, min_notional_usdt, available_usdt, price)

\* -------------------------------------------------------- TradeLimiter
NewLimiter(max_signals, max_trades) ==
    [max_signals_per_regime |-> max_signals, max_trades_per_day |-> max_trades,
     regime_attempts |-> 0, trade_count |-> 0, last_regime_key |-> None]

\* A limiter that adopts the new key but keeps the attempts counted so far.
ResetKeyOnly(l, regime_key) ==
    IF l.last_regime_key # Some(regime_key)
    THEN [l EXCEPT !.last_regime_key = Some(regime_key)]
    ELSE l

\* A limiter that starts the count afresh for a new key without adopting it.
ResetCounterOnly(l, regime_key) ==
    IF l.last_regime_key # Some(regime_key)
    THEN [l EXCEPT !.regime_attempts = 0]
    ELSE l

ResetOnNewKey(l, regime_key) ==
    IF l.last_regime_key # Some(regime_key)
    THEN [l EXCEPT !.last_regime_key = Some(regime_key), !.regime_attempts = 0]
    ELSE l

\* A limiter without the daily trade limit.
allow_signal_regime_only(l, regime_key) ==
    LET l1 == ResetOnNewKey(l, regime_key)
    IN  IF l1.regime_attempts >= l1.max_signals_per_regime
        THEN [limiter |-> l1, allowed |-> FALSE, reason |-> "regime_attempt_limit"]
        ELSE [limiter |-> [l1 EXCEPT !.regime_attempts = @ + 1],
              allowed |-> TRUE, reason |-> "ok"]

\* A limiter that looks at the daily trade limit before the regime limit.
allow_signal_daily_first(l, regime_key) ==
    LET l1 == ResetOnNewKey(l, regime_key)
    IN  IF l1.trade_count >= l1.max_trades_per_day
        THEN [limiter |-> l1, allowed |-> FALSE, reason |-> "daily_trade_limit"]
        ELSE IF l1.regime_attempts >= l1.max_signals_per_regime
        THEN [limiter |-> l1, allowed |-> FALSE, reason |-> "regime_attempt_limit"]
        ELSE [limiter |-> [l1 EXCEPT !.regime_attempts = @ + 1],
              allowed |-> TRUE, reason |-> "ok"]

\* Result: the limiter after the call, and (allowed, reason).
allow_signal(l, regime_key) ==
    LET l1 == ResetOnNewKey(l, regime_key)
    IN  IF l1.regime_attempts >= l1.max_signals_per_regime
        THEN [limiter |-> l1, allowed |-> FALSE, reason |-> "regime_attempt_limit"]
        ELSE IF l1.trade_count >= l1.max_trades_per_day
        THEN [limiter |-> l1, allowed |-> FALSE, reason |-> "daily_trade_limit"]
        ELSE [limiter |-> [l1 EXCEPT !.regime_attempts = @ + 1],
              allowed |-> TRUE, reason |-> "ok"]

\* A limiter that does not count the trade.
mark_trade_dropped(l) == l

mark_trade(l) == [l EXCEPT !.trade_count = @ + 1]

\* ------------------------------------------- RegimeState and EdgeGate
\* volatility and trend_strength are in units of 1e-5.
Regimes ==
    { [is_range_bound |-> TRUE,  volatility |-> 10, trend_strength |-> 10],
      [is_range_bound |-> TRUE,  volatility |-> 14, trend_strength |-> 10],
      [is_range_bound |-> TRUE,  volatility |-> 20, trend_strength |-> 10],
      [is_range_bound |-> FALSE, volatility |-> 30, trend_strength |-> 90] }

BoolToInt(b) == IF b THEN 1 ELSE 0

NewEdgeGate(volatility_thr, trend_strength_thr, min_conf) ==
    [volatility_threshold |-> volatility_thr,
     trend_strength_threshold |-> trend_strength_thr,
     min_confidence |-> min_conf]

\* A gate that is on as soon as the confidence reaches min_confidence.
evaluate_by_confidence(gate, regime) ==
    LET vol_ok == regime.volatility <= gate.volatility_threshold
        trend_ok == regime.trend_strength <= gate.trend_strength_threshold
        range_ok == regime.is_range_bound
        score == BoolToInt(vol_ok) + BoolToInt(trend_ok) + BoolToInt(range_ok)
        confidence == Max(0, Min(3, score))
    IN  [is_on |-> confidence * PctDen >= gate.min_confidence * 3,
         confidence |-> confidence]

\* EdgeGate.evaluate; confidence is in thirds, min_confidence over PctDen.
EdgeGate_evaluate(gate, regime) ==
    LET vol_ok == regime.volatility <= gate.volatility_threshold
        trend_ok == regime.trend_strength <= gate.trend_strength_threshold
        range_ok == regime.is_range_bound
        score == BoolToInt(vol_ok) + BoolToInt(trend_ok) + BoolToInt(range_ok)
        confidence == Max(0, Min(3, score))
    IN  [is_on |-> vol_ok /\ trend_ok /\ range_ok
                     /\ confidence * PctDen >= gate.min_confidence * 3,
         confidence |-> confidence]

\* the engine's gate, and self.edge_gate.evaluate(regime)
edge_gate == NewEdgeGate(volatility_threshold, trend_strength_threshold, min_confidence)

evaluate(regime) == EdgeGate_evaluate(edge_gate, regime)

\* f"{x:.4f}" of a value in units of 1e-5: the nearest multiple of 1e-4
Format4(x) == (x + 5) \div 10

regime_key(regime) ==
    <<regime.is_range_bound, Format4(regime.volatility),
      Format4(regime.trend_strength)>>

\* ====================================================================
\* PaperBroker driven directly: two instances built from one seed, each
\* working through the same sequence of calls at its own pace.  Every
\* simulated order gets its own uuid4 (an arbitrary id here).
\* ====================================================================
QtyInputs == {0, 2 * QtyScale}

OpenCalls == [op : {"try_open_long"}, price : Prices, qty : QtyInputs]
ExitCalls == [op : {"check_exit"}, price : Prices, qty : {0}]

\* The log entry of call c made as the ts-th call on broker b.
ApplyCall(b, c, oid, ts) ==
    IF c.op = "try_open_long"
    THEN LET r == try_open_long(b, oid, ts, c.price, c.qty,
                                take_profit_pct, stop_loss_pct)
         IN  [call |-> c, before |-> b, fill |-> r.fill, reason |-> None,
              after |-> r.broker]
    ELSE LET r == check_exit(b, oid, ts, c.price)
         IN  [call |-> c, before |-> b, fill |-> r.fill, reason |-> r.reason,
              after |-> r.broker]

\* The first instance chooses the calls; the second makes the same calls,
\* any number of calls later.
Leads(mine) == Len(mine) < MaxCalls

Follows(mine, other, c) ==
    /\ Len(mine) < Len(other)
    /\ c = other[Len(mine) + 1].call

InitBroker ==
    /\ \E seed \in Seeds :
          /\ broker = NewBroker(seed)
          /\ broker2 = NewBroker(seed)
    /\ calls = <<>>
    /\ calls2 = <<>>
    /\ mode = "direct"
    /\ run_state = "running"
    /\ balance = None
    /\ pnl = None
    /\ limiter = None
    /\ last = None
    /\ lim_obs = None
    /\ daily = None
    /\ AuxIdle

not_broker_vars == <<mode, run_state, balance, pnl, limiter, last, lim_obs, daily,
                     aux_vars>>

TryOpenLong1 ==
    \E c \in OpenCalls, oid \in OrderIds :
        /\ Leads(calls)
        /\ broker' = ApplyCall(broker, c, oid, Len(calls) + 1).after
        /\ calls' = Append(calls, ApplyCall(broker, c, oid, Len(calls) + 1))
        /\ UNCHANGED <<broker2, calls2>>
        /\ UNCHANGED not_broker_vars

CheckExit1 ==
    \E c \in ExitCalls, oid \in OrderIds :
        /\ Leads(calls)
        /\ broker' = ApplyCall(broker, c, oid, Len(calls) + 1).after
        /\ calls' = Append(calls, ApplyCall(broker, c, oid, Len(calls) + 1))
        /\ UNCHANGED <<broker2, calls2>>
        /\ UNCHANGED not_broker_vars

TryOpenLong2 ==
    \E c \in OpenCalls, oid \in OrderIds :
        /\ Follows(calls2, calls, c)
        /\ broker2' = ApplyCall(broker2, c, oid, Len(calls2) + 1).after
        /\ calls2' = Append(calls2, ApplyCall(broker2, c, oid, Len(calls2) + 1))
        /\ UNCHANGED <<broker, calls>>
        /\ UNCHANGED not_broker_vars

CheckExit2 ==
    \E c \in ExitCalls, oid \in OrderIds :
        /\ Follows(calls2, calls, c)
        /\ broker2' = ApplyCall(broker2, c, oid, Len(calls2) + 1).after
        /\ calls2' = Append(calls2, ApplyCall(broker2, c, oid, Len(calls2) + 1))
        /\ UNCHANGED <<broker, calls>>
        /\ UNCHANGED not_broker_vars

NextBroker == TryOpenLong1 \/ CheckExit1 \/ TryOpenLong2 \/ CheckExit2

SpecBroker == InitBroker /\ [][NextBroker]_vars

\* ------------------------------------------- claims on the PaperBroker
Flat(b) == ~IsSome(b.position)
Opened(e) == e.call.op = "try_open_long" /\ IsSome(e.fill)
Closed(e) == e.call.op = "check_exit" /\ IsSome(e.fill)
Entries(log) == {log[k] : k \in 1..Len(log)}

\* C1: over any sequence of try_open_long and check_exit calls the broker
\* holds at most one position; it goes from FLAT to LONG only inside a
\* try_open_long call that returns a fill, from LONG to FLAT only inside a
\* check_exit call that returns a fill with reason take_profit or
\* stop_loss, and no call changes an open position otherwise.
C1_OnePositionLifecycle ==
    /\ Len(broker.position) <= 1
    /\ \A e \in Entries(calls) :
          /\ Len(e.after.position) <= 1
          /\ (Flat(e.before) /\ ~Flat(e.after)) => Opened(e)
          /\ (~Flat(e.before) /\ Flat(e.after)) =>
                 /\ Closed(e)
                 /\ e.reason \in {Some("take_profit"), Some("stop_loss")}
          /\ (~Flat(e.before) /\ ~Flat(e.after)) =>
                 e.after.position = e.before.position
          /\ Opened(e) => Flat(e.before) /\ ~Flat(e.after)
          /\ Closed(e) => ~Flat(e.before) /\ Flat(e.after)

\* C1 witness: a position was opened by a filled try_open_long, a further
\* try_open_long was made while it was open, and a check_exit closed it.
C1_Witness ==
    /\ Len(calls) = 3
    /\ Opened(calls[1])
    /\ calls[2].call.op = "try_open_long" /\ calls[2].call.qty > 0
    /\ Closed(calls[3])
    /\ Flat(broker)

\* C6: when check_exit triggers, the sell order is for the whole position
\* quantity (a fill that is not partial sells all of it, a partial one a
\* configured ratio of all of it) and the broker is FLAT afterwards, also
\* when the exit fill is partial and smaller than the position.
C6_ExitClearsWholePosition ==
    \A e \in Entries(calls) :
        Closed(e) =>
            LET pos == Get(e.before.position)
                fill == Get(e.fill)
            IN  /\ Flat(e.after)
                /\ ~fill.is_partial => fill.qty = pos.qty
                /\ fill.is_partial =>
                       \E r \in min_partial_fill_ratio..max_partial_fill_ratio :
                           fill.qty * RatioDen = pos.qty * r

\* C6 witness: a check_exit triggered with a partial fill smaller than the
\* open position, and the broker is FLAT.
C6_Witness ==
    \E e \in Entries(calls) :
        /\ Closed(e)
        /\ Get(e.fill).is_partial
        /\ Get(e.fill).qty < Get(e.before.position).qty
        /\ Get(e.fill).qty > 0
        /\ Flat(e.after)

\* C7: try_open_long called while a position is open, or with qty <= 0,
\* returns no fill and leaves the position (or FLAT) and the generator
\* state as they were.
C7_RejectedOpenIsNoOp ==
    \A e \in Entries(calls) :
        (e.call.op = "try_open_long" /\ (~Flat(e.before) \/ e.call.qty <= 0)) =>
            /\ e.fill = None
            /\ e.after.position = e.before.position
            /\ e.after.rng = e.before.rng

\* C7 witness: one try_open_long was rejected for qty <= 0 while FLAT and
\* another, with qty > 0, while a position was open.
C7_Witness ==
    /\ \E e \in Entries(calls) :
          /\ e.call.op = "try_open_long" /\ e.call.qty <= 0
          /\ Flat(e.before) /\ e.fill = None
    /\ \E e \in Entries(calls) :
          /\ e.call.op = "try_open_long" /\ e.call.qty > 0
          /\ ~Flat(e.before) /\ e.fill = None

\* What a caller sees of a call: the fill's price, quantity, fee and partial
\* flag (not its uuid), the exit reason, and the position afterwards.
Seen(e) ==
    [fill |-> IF IsSome(e.fill)
              THEN LET f == Get(e.fill)
                   IN  Some([price |-> f.price, qty |-> f.qty, fee |-> f.fee,
                             is_partial |-> f.is_partial])
              ELSE None,
     reason |-> e.reason,
     position |-> e.after.position]

\* C8: two PaperBroker instances built with the same seed and driven by the
\* same sequence of calls produce the same fills (price, quantity, fee,
\* partial flag) and the same position states at every step.
C8_SameSeedSameFills ==
    \A k \in 1..Min(Len(calls), Len(calls2)) :
        calls[k].call = calls2[k].call => Seen(calls[k]) = Seen(calls2[k])

\* C8 witness: both instances have made the same two filled calls, one of
\* the fills partial, under different order ids.
C8_Witness ==
    /\ Len(calls) >= 2 /\ Len(calls2) >= 2
    /\ \A k \in 1..2 :
          /\ IsSome(calls[k].fill) /\ IsSome(calls2[k].fill)
          /\ calls[k].call = calls2[k].call
          /\ Get(calls[k].fill).order_id # Get(calls2[k].fill).order_id
    /\ \E k \in 1..2 : Get(calls[k].fill).is_partial
    /\ \E k \in 1..2 : ~Get(calls[k].fill).is_partial

\* ====================================================================
\* TradingEngine: one action per driver, each processing one candle.
\* The candle's close, the regime that RegimeDetector.classify reads off
\* the price history and whether MeanReversionStrategy.generate fires are
\* inputs of a tick.
\* ====================================================================
limits == NewDailyLimits(daily_profit_cap_pct, daily_loss_cap_pct)
max_ticks == MaxTicks

\* strategy.generate(candle.ts, closes): a BUY signal at the last close, or None
generate(ts, close, fires) ==
    IF fires
    THEN Some([ts |-> ts, side |-> "BUY", action |-> "ENTER", ref_price |-> close])
    ELSE None

Proceeds(fill) == Notional(fill.price, fill.qty) - fill.fee
Cost(fill) == Notional(fill.price, fill.qty) + fill.fee

\* An exit credited without its fee taken off.
ApplyExitGross(bal, fill) ==
    [bal EXCEPT !.usdt_free = @ + Notional(fill.price, fill.qty), !.btc_free = @ - fill.qty]

ApplyExit(bal, fill) ==
    [bal EXCEPT !.usdt_free = @ + Proceeds(fill), !.btc_free = @ - fill.qty]

\* An entry debited without its fee.
ApplyEntryNoFee(bal, fill) ==
    [bal EXCEPT !.usdt_free = @ - Notional(fill.price, fill.qty), !.btc_free = @ + fill.qty]

ApplyEntry(bal, fill) ==
    [bal EXCEPT !.usdt_free = @ - Cost(fill), !.btc_free = @ + fill.qty]

\* What the engine reads (and logs) of a fill.
Logged(fill) ==
    [price |-> fill.price, qty |-> fill.qty, fee |-> fill.fee,
     is_partial |-> fill.is_partial]

\* A tick that would go on to the exit check although the daily limit denies.
NeverStops(can) == FALSE

\* if not can_trade: return (step) / break (run, run_live)
StopsTick(can) == ~can.allowed

\* A limiter consulted only once the edge and open-position tests passed.
LimiterStageAfterGates(l, key, edge_is_on, position_open) ==
    IF edge_is_on /\ ~position_open
    THEN [called |-> TRUE] @@ allow_signal(l, key)
    ELSE [called |-> FALSE, limiter |-> l, allowed |-> FALSE, reason |-> "not_called"]

\* allowed_signal, signal_reason = self.trade_limiter.allow_signal(regime_key),
\* made as soon as a signal is present
LimiterStage(l, key, edge_is_on, position_open) ==
    [called |-> TRUE] @@ allow_signal(l, key)

\* The tests with the open-position test put before the limiter's result.
SkipReasonPositionFirst(edge_is_on, allowed_signal, signal_reason, position_open, qty) ==
    IF ~edge_is_on THEN "edge_off"
    ELSE IF position_open THEN "position_open"
    ELSE IF ~allowed_signal THEN signal_reason
    ELSE IF qty <= 0 THEN "insufficient_balance"
    ELSE "ok"

\* The tests a signal goes through, in the order of the code; "ok" when all pass.
SkipReason(edge_is_on, allowed_signal, signal_reason, position_open, qty) ==
    IF ~edge_is_on THEN "edge_off"
    ELSE IF ~allowed_signal THEN signal_reason
    ELSE IF position_open THEN "position_open"
    ELSE IF qty <= 0 THEN "insufficient_balance"
    ELSE "ok"

\* A trade counted as soon as the limiter allowed the signal.
LimiterAfterAllowed(l, skip, entry_fill) ==
    IF skip \in {"ok", "position_open", "insufficient_balance"} THEN mark_trade(l) ELSE l

\* self.trade_limiter.mark_trade(), inside "if entry_fill:"
LimiterAfterEntry(l, skip, entry_fill) ==
    IF skip = "ok" /\ IsSome(entry_fill) THEN mark_trade(l) ELSE l

NoTick ==
    [ts |-> 0, close |-> 0, edge_on |-> FALSE, denied |-> FALSE,
     limit_reason |-> "ok", exit |-> None, exit_reason |-> None,
     signal |-> FALSE, key |-> None, allow |-> None, log |-> "none",
     position_open |-> FALSE, sized |-> 0,
     entry |-> None, trace |-> <<>>, entry_fills |-> 0]

\* One candle through the body of step() (the same in run() and run_live()).
\* s holds the engine's broker, balance, pnl, limiter and the last tick.
ProcessTick(s, close, regime, fires, oid1, oid2) ==
    LET ts == s.pnl.total_ticks + 1
        edge == evaluate(regime)
        pnl1 == mark_edge_state(s.pnl, edge.is_on)
        mark_price == close
        eq == equity(s.balance, mark_price)
        pnl2 == update_equity(pnl1, eq)
        can == can_continue(limits, s.balance.day_start_equity, eq)
        t0 == [NoTick EXCEPT !.ts = ts, !.close = close, !.edge_on = edge.is_on,
                             !.limit_reason = can.reason,
                             !.entry_fills = s.last.entry_fills,
                             !.trace = <<"classify", "evaluate", "mark_edge_state",
                                         "update_equity", "can_continue">>]
    IN  IF StopsTick(can)
        THEN [broker |-> s.broker, balance |-> s.balance, pnl |-> pnl2,
              limiter |-> s.limiter,
              last |-> [t0 EXCEPT !.denied = ~can.allowed, !.log = "daily_limit_stop"]]
        ELSE
        LET ce == check_exit(s.broker, oid1, ts, mark_price)
            has_exit == IsSome(ce.fill)
            bal1 == IF has_exit THEN ApplyExit(s.balance, Get(ce.fill)) ELSE s.balance
            pnl3 == IF has_exit THEN mark_exit(pnl2, Proceeds(Get(ce.fill))) ELSE pnl2
            signal == generate(ts, close, fires)
            t1 == [t0 EXCEPT !.denied = ~can.allowed,
                             !.exit = IF has_exit THEN Some(Logged(Get(ce.fill))) ELSE None,
                             !.exit_reason = ce.reason,
                             !.signal = IsSome(signal),
                             !.trace = @ \o <<"check_exit">>
                                         \o (IF has_exit THEN <<"mark_exit">> ELSE <<>>)
                                         \o <<"generate">>]
        IN  IF ~IsSome(signal)
            THEN [broker |-> ce.broker, balance |-> bal1, pnl |-> pnl3,
                  limiter |-> s.limiter, last |-> [t1 EXCEPT !.log = "no_signal"]]
            ELSE
            LET key == regime_key(regime)
                position_open == IsSome(ce.broker.position)
                al == LimiterStage(s.limiter, key, edge.is_on, position_open)
                qty == size(bal1.usdt_free, Get(signal).ref_price)
                skip == SkipReason(edge.is_on, al.allowed, al.reason, position_open, qty)
                t2 == [t1 EXCEPT !.key = Some(key),
                                 !.position_open = position_open,
                                 !.sized = qty,
                                 !.allow = IF al.called
                                           THEN Some([allowed |-> al.allowed,
                                                      reason |-> al.reason])
                                           ELSE None,
                                 !.trace = @ \o (IF al.called THEN <<"allow_signal">>
                                                 ELSE <<>>)
                                             \o <<"edge_is_on">>
                                             \o (IF skip = "edge_off" THEN <<>>
                                                 ELSE <<"allowed_signal">>)
                                             \o (IF skip \in {"ok", "insufficient_balance",
                                                              "position_open"}
                                                 THEN <<"position">> ELSE <<>>)
                                             \o (IF skip \in {"ok", "insufficient_balance"}
                                                 THEN <<"size">> ELSE <<>>)]
            IN  IF skip # "ok"
                THEN [broker |-> ce.broker, balance |-> bal1, pnl |-> pnl3,
                      limiter |-> LimiterAfterEntry(al.limiter, skip, None),
                      last |-> [t2 EXCEPT !.log = skip]]
                ELSE
                LET ol == try_open_long(ce.broker, oid2, Get(signal).ts,
                                        Get(signal).ref_price, qty,
                                        take_profit_pct, stop_loss_pct)
                    t3 == [t2 EXCEPT !.trace = @ \o <<"try_open_long">>]
                IN  IF IsSome(ol.fill)
                    THEN [broker |-> ol.broker,
                          balance |-> ApplyEntry(bal1, Get(ol.fill)),
                          pnl |-> mark_entry(pnl3, Cost(Get(ol.fill))),
                          limiter |-> LimiterAfterEntry(al.limiter, skip, ol.fill),
                          last |-> [t3 EXCEPT !.log = "entry",
                                              !.entry = Some(Logged(Get(ol.fill))),
                                              !.entry_fills = @ + 1,
                                              !.trace = @ \o <<"mark_entry", "mark_trade">>]]
                    ELSE [broker |-> ol.broker, balance |-> bal1, pnl |-> pnl3,
                          limiter |-> LimiterAfterEntry(al.limiter, skip, ol.fill),
                          last |-> [t3 EXCEPT !.log = "entry_rejected"]]

Engine == [broker |-> broker, balance |-> balance, pnl |-> pnl,
           limiter |-> limiter, last |-> last]

not_engine_vars == <<broker2, calls, calls2, lim_obs, daily, aux_vars>>

Init ==
    /\ mode \in {"step", "run", "run_live"}
    /\ run_state = "running"
    /\ \E seed \in Seeds : broker = NewBroker(seed)
    /\ \E start_usdt \in InitialBalances :
          /\ balance = NewBalance(start_usdt * MoneyScale)
          /\ pnl = NewPnL(start_usdt * MoneyScale)
    /\ limiter = NewLimiter(max_signals_per_regime, max_trades_per_day)
    /\ last = NoTick
    /\ broker2 = None
    /\ calls = None
    /\ calls2 = None
    /\ lim_obs = None
    /\ daily = None
    /\ AuxIdle

\* One call of step() on a candle whose close is one of closes, while fewer
\* than budget calls were made.
StepWith(closes, budget) ==
    /\ mode = "step"
    /\ run_state = "running"
    /\ pnl.total_ticks < budget
    /\ \E close \in closes, regime \in Regimes, fires \in BOOLEAN, oid1 \in OrderIds :
          \E oid2 \in OrderIds \ {oid1} :
          \E r \in {ProcessTick(Engine, close, regime, fires, oid1, oid2)} :
              /\ broker' = r.broker
              /\ balance' = r.balance
              /\ pnl' = r.pnl
              /\ limiter' = r.limiter
              /\ last' = r.last
    /\ UNCHANGED <<mode, run_state>>
    /\ UNCHANGED not_engine_vars

\* run_paper.main: while running: engine.step()
StepTick == StepWith(Prices, MaxTicks)

\* The loop of run() or run_live(): one iteration; the daily limit's denial
\* breaks out of the loop, and the loop ends after max_ticks iterations.
LoopTick ==
    /\ run_state = "running"
    /\ pnl.total_ticks < max_ticks
    /\ \E close \in Prices, regime \in Regimes, fires \in BOOLEAN, oid1 \in OrderIds :
          \E oid2 \in OrderIds \ {oid1} :
          \E r \in {ProcessTick(Engine, close, regime, fires, oid1, oid2)} :
              /\ broker' = r.broker
              /\ balance' = r.balance
              /\ pnl' = r.pnl
              /\ limiter' = r.limiter
              /\ last' = r.last
              /\ run_state' = IF r.last.log = "daily_limit_stop"
                                 \/ r.pnl.total_ticks = max_ticks
                              THEN "done" ELSE "running"
    /\ UNCHANGED mode
    /\ UNCHANGED not_engine_vars

RunTick == mode = "run" /\ LoopTick

RunLiveTick == mode = "run_live" /\ LoopTick

Next == StepTick \/ RunTick \/ RunLiveTick

Spec == Init /\ [][Next]_vars

\* step() called on closes that move less in one tick than those above: a
\* close can reach an open position's take-profit price while the equity is
\* still inside the daily profit cap.
TripPrices == {900, 960}

InitTrip == Init /\ mode = "step"

TripTick == StepWith(TripPrices, MaxTripTicks)

SpecTrip == InitTrip /\ [][TripTick]_vars

\* ------------------------------------------ claims on the engine's tick
HeadTrace == <<"classify", "evaluate", "mark_edge_state", "update_equity", "can_continue">>
Index(seq, x) == IF \E i \in 1..Len(seq) : seq[i] = x
                 THEN CHOOSE i \in 1..Len(seq) : seq[i] = x
                 ELSE 0
Count(seq, x) == Cardinality({i \in 1..Len(seq) : seq[i] = x})
Has(seq, x) == Index(seq, x) > 0

\* C2: on a tick where DailyLimits.can_continue denies, processing stops
\* right after the edge-statistics and equity update: no exit check, no
\* strategy call, no TradeLimiter call and no entry happen, and position,
\* balances, pending entry, realized PnL, trade statistics and limiter
\* counters are as before the tick, also when the mark price is at or beyond
\* the open position's take-profit or stop-loss price.
C2_DeniedTickStops ==
    [][ (last'.denied /\ last'.ts = pnl.total_ticks + 1) =>
            /\ last'.trace = HeadTrace
            /\ last'.log = "daily_limit_stop"
            /\ broker' = broker
            /\ balance' = balance
            /\ limiter' = limiter
            /\ pnl'.entry_value = pnl.entry_value
            /\ pnl'.realized_pnl = pnl.realized_pnl
            /\ pnl'.trades_closed = pnl.trades_closed
            /\ pnl'.wins = pnl.wins /\ pnl'.losses = pnl.losses
            /\ pnl'.daily_trade_count = pnl.daily_trade_count
            /\ pnl'.total_ticks = pnl.total_ticks + 1 ]_vars

\* C2 witness: the last tick was denied by the daily limit while a position
\* was open whose take-profit or stop-loss price the mark price had reached.
C2_Witness ==
    /\ last.denied
    /\ IsSome(broker.position)
    /\ IsSome(ExitReason(Get(broker.position), last.close))

\* C3: on every tick that passes the daily-limit gate and has a signal,
\* allow_signal is called exactly once, before the edge-on and open-position
\* tests, so the attempt counter goes up by one whenever the limiter allows,
\* also when the edge is off or a position is open.
C3_AllowSignalBeforeGates ==
    [][ (~last'.denied /\ last'.signal /\ last'.ts = pnl.total_ticks + 1) =>
            /\ IsSome(last'.allow)
            /\ Count(last'.trace, "allow_signal") = 1
            /\ Index(last'.trace, "allow_signal") < Index(last'.trace, "edge_is_on")
            /\ Has(last'.trace, "position") =>
                   Index(last'.trace, "allow_signal") < Index(last'.trace, "position")
            /\ limiter'.last_regime_key = last'.key
            /\ limiter'.regime_attempts =
                   (IF limiter.last_regime_key = last'.key
                    THEN limiter.regime_attempts ELSE 0)
                   + (IF Get(last'.allow).allowed THEN 1 ELSE 0) ]_vars

\* C3 witness: a signal arrived while a position was open, the limiter
\* allowed it, and it was the second attempt counted for its regime key.
C3_Witness ==
    /\ last.signal /\ ~last.denied
    /\ last.log = "position_open"
    /\ IsSome(last.allow) /\ Get(last.allow).allowed
    /\ limiter.regime_attempts = 2

\* C3, second case: a signal arrived while the edge was off, the limiter
\* allowed it, and the attempt was counted.
C3_WitnessEdgeOff ==
    /\ last.signal /\ ~last.denied
    /\ last.log = "edge_off"
    /\ IsSome(last.allow) /\ Get(last.allow).allowed
    /\ limiter.regime_attempts >= 1

\* C4: with a signal present the tests are made in the order edge.is_on,
\* the limiter's result, open position, sized quantity > 0; the tick stops
\* at the first that fails, with that test's own reason, and an entry is
\* attempted only when all pass.
C4_GateOrder ==
    (last.signal /\ ~last.denied) =>
        LET allowed == IsSome(last.allow) /\ Get(last.allow).allowed
        IN  /\ ~last.edge_on => last.log = "edge_off"
            /\ (last.edge_on /\ ~allowed) =>
                   /\ IsSome(last.allow)
                   /\ last.log = Get(last.allow).reason
                   /\ last.log \in {"regime_attempt_limit", "daily_trade_limit"}
            /\ (last.edge_on /\ allowed /\ last.position_open) =>
                   last.log = "position_open"
            /\ (last.edge_on /\ allowed /\ ~last.position_open /\ last.sized <= 0) =>
                   last.log = "insufficient_balance"
            /\ Has(last.trace, "try_open_long") <=>
                   (last.edge_on /\ allowed /\ ~last.position_open /\ last.sized > 0)
            /\ IsSome(last.entry) => Has(last.trace, "try_open_long")
            /\ Has(last.trace, "size") => Has(last.trace, "position")
            /\ Has(last.trace, "position") => Has(last.trace, "allowed_signal")

\* C4 witness: the limiter denied a signal on a tick where the edge was on
\* and a position was open: the tick stopped with the limiter's reason, not
\* with position_open.
C4_Witness ==
    /\ last.signal /\ ~last.denied
    /\ last.edge_on
    /\ last.position_open
    /\ last.log = "regime_attempt_limit"

\* C5: mark_trade is invoked only after try_open_long returned a fill,
\* once per entry fill: the limiter's trade counter equals the number of
\* entry fills so far.
C5_TradeCountIsEntryFills ==
    /\ limiter.trade_count = last.entry_fills
    /\ Has(last.trace, "mark_trade") <=> IsSome(last.entry)
    /\ Has(last.trace, "mark_trade") =>
           Index(last.trace, "try_open_long") < Index(last.trace, "mark_trade")

\* C5 witness: two entries were filled and two trades are counted.
C5_Witness ==
    /\ last.entry_fills = 2
    /\ limiter.trade_count = 2

\* The single-position lifecycle of C1 seen from the engine: a tick changes
\* the broker's position only by an exit fill, an entry fill, or both.
C1_EngineTicks ==
    [][ /\ (Flat(broker) /\ ~Flat(broker')) => IsSome(last'.entry)
        /\ (~Flat(broker) /\ Flat(broker')) =>
               IsSome(last'.exit) /\ ~IsSome(last'.entry)
        /\ (~Flat(broker) /\ ~Flat(broker') /\ broker'.position # broker.position) =>
               IsSome(last'.exit) /\ IsSome(last'.entry) ]_vars

\* C22: a run ends only when its tick budget is exhausted (or it is
\* cancelled from outside, which the ticks of this specification never
\* are): run and run_live process exactly max_ticks ticks, and the loop has
\* ended after at most max_ticks ticks.
C22_RunEndsOnlyOnBudget ==
    mode \in {"run", "run_live"} =>
        /\ run_state = "done" => pnl.total_ticks = max_ticks
        /\ pnl.total_ticks <= max_ticks
        /\ pnl.total_ticks = max_ticks => run_state = "done"

\* The budget alone: never more than max_ticks ticks, and the loop has
\* ended once max_ticks ticks are processed.
RunWithinBudget ==
    mode \in {"run", "run_live"} =>
        /\ pnl.total_ticks <= max_ticks
        /\ pnl.total_ticks = max_ticks => run_state = "done"

\* A loop ends before its budget only by the daily limit's break.
EarlyEndIsDailyLimitStop ==
    (mode \in {"run", "run_live"} /\ run_state = "done"
        /\ pnl.total_ticks < max_ticks) => last.log = "daily_limit_stop"

\* run() has ended on its second tick by the daily limit's break.
RunEndedByDailyLimit ==
    /\ mode = "run" /\ run_state = "done"
    /\ pnl.total_ticks = 2 /\ last.log = "daily_limit_stop"

\* run_live() has ended with its budget used up.
RunLiveEndedOnBudget ==
    /\ mode = "run_live" /\ run_state = "done"
    /\ pnl.total_ticks = max_ticks /\ last.log # "daily_limit_stop"

\* the tick just made closed the engine's first trade by a take-profit exit
FirstTakeProfit ==
    /\ last'.ts = pnl.total_ticks + 1
    /\ pnl.trades_closed = 0
    /\ IsSome(last'.exit)
    /\ last'.exit_reason = Some("take_profit")

\* what the round trip leaves: one closed trade, a win, and a quote balance
\* that is the pre-entry balance plus proceeds minus cost (an entry made
\* later in the same tick put back)
RoundTripBooked ==
    LET cost == Get(pnl.entry_value)
        proceeds == Proceeds(Get(last'.exit))
        pre_entry_usdt == balance.usdt_free + cost
        entry_cost == IF IsSome(last'.entry) THEN Cost(Get(last'.entry)) ELSE 0
    IN  /\ IsSome(pnl.entry_value)
        /\ pnl'.trades_closed = 1
        /\ pnl'.realized_pnl = proceeds - cost
        /\ balance'.usdt_free + entry_cost = pre_entry_usdt + proceeds - cost

RoundTripWon ==
    /\ pnl'.realized_pnl > 0
    /\ pnl'.wins = 1 /\ pnl'.losses = 0

\* C25: a position opened by an entry fill and later closed by a
\* take-profit trigger yields exactly one closed trade with realized_pnl > 0,
\* wins = 1 and losses = 0, and a quote balance that exceeds the pre-entry
\* balance by the exit proceeds net of fee minus the entry cost with fee,
\* whatever partial fills the simulator draws on the entry and on the exit.
C25_TakeProfitRoundTripWins ==
    [][ FirstTakeProfit => (RoundTripBooked /\ RoundTripWon) ]_vars

\* The bookkeeping of the round trip alone, won or lost.
TakeProfitRoundTripBooked ==
    [][ FirstTakeProfit => RoundTripBooked ]_vars

\* The round trip is won when its exit is filled in full.
FullExitRoundTripWins ==
    [][ (FirstTakeProfit /\ ~Get(last'.exit).is_partial) => RoundTripWon ]_vars

\* A take-profit exit, partially filled, has booked the first trade as a
\* loss, and the unsold rest of the position is still in the base balance.
TakeProfitBookedAsLoss ==
    /\ pnl.trades_closed = 1 /\ pnl.losses = 1 /\ pnl.wins = 0
    /\ pnl.realized_pnl < 0
    /\ last.exit_reason = Some("take_profit")
    /\ Get(last.exit).is_partial
    /\ ~IsSome(last.entry) /\ balance.btc_free > 0 /\ ~IsSome(broker.position)

\* A take-profit exit filled in full has booked the first trade as a win.
TakeProfitWon ==
    /\ pnl.trades_closed = 1 /\ pnl.wins = 1 /\ pnl.realized_pnl > 0
    /\ last.exit_reason = Some("take_profit")
    /\ ~Get(last.exit).is_partial

\* The same after a partial entry.
TakeProfitWonAfterPartialEntry ==
    /\ pnl.trades_closed = 1 /\ pnl.wins = 1 /\ pnl.realized_pnl > 0
    /\ last.exit_reason = Some("take_profit")
    /\ ~Get(last.exit).is_partial
    /\ \A price \in TripPrices : Get(last.exit).qty < size(balance.day_start_equity, price)

\* ====================================================================
\* TradeLimiter on its own: allow_signal and mark_trade called in any
\* order on a limiter built with any of a few limits.  lim_obs records the
\* last call and, apart from the limiter's own counter, the number of
\* allowed allow_signal calls made with the current key since it was adopted,
\* and the keys that a call has found exhausted so far.
\* ====================================================================
LimiterKeys == {regime_key(r) : r \in Regimes}
SignalLimits == {0, 1, 2}
TradeLimits == {1, 2}

NoCall ==
    [n |-> 0, call |-> "none", key |-> None, prev_key |-> None,
     streak |-> 0, prev_streak |-> 0, allowed |-> FALSE, reason |-> "none",
     prev_reason |-> "none", trades_before |-> 0, exhausted |-> {}]

not_limiter_vars == <<mode, run_state, broker, balance, pnl, last, broker2,
                      calls, calls2, daily, aux_vars>>

InitLimiter ==
    /\ \E max_signals \in SignalLimits, max_trades \in TradeLimits :
          limiter = NewLimiter(max_signals, max_trades)
    /\ lim_obs = NoCall
    /\ mode = None /\ run_state = None /\ broker = None /\ balance = None
    /\ pnl = None /\ last = None /\ broker2 = None /\ calls = None
    /\ calls2 = None /\ daily = None
    /\ AuxIdle

\* An allowed call with this key adds one to the key's streak.
StreakOf(obs, key) == IF obs.key = Some(key) THEN obs.streak ELSE 0

AllowSignal ==
    /\ lim_obs.n < MaxLimCalls
    /\ \E key \in LimiterKeys :
          \E r \in {allow_signal(limiter, key)} :
              /\ limiter' = r.limiter
              /\ lim_obs' = [n |-> lim_obs.n + 1, call |-> "allow_signal",
                             key |-> Some(key), prev_key |-> lim_obs.key,
                             streak |-> StreakOf(lim_obs, key)
                                        + (IF r.allowed THEN 1 ELSE 0),
                             prev_streak |-> StreakOf(lim_obs, key),
                             allowed |-> r.allowed, reason |-> r.reason,
                             prev_reason |-> lim_obs.reason,
                             trades_before |-> limiter.trade_count,
                             exhausted |->
                                 IF r.reason = "regime_attempt_limit"
                                 THEN lim_obs.exhausted \cup {key}
                                 ELSE lim_obs.exhausted]
    /\ UNCHANGED not_limiter_vars

MarkTrade ==
    /\ lim_obs.n < MaxLimCalls
    /\ limiter' = mark_trade(limiter)
    /\ lim_obs' = [lim_obs EXCEPT !.n = @ + 1, !.call = "mark_trade"]
    /\ UNCHANGED not_limiter_vars

NextLimiter == AllowSignal \/ MarkTrade

SpecLimiter == InitLimiter /\ [][NextLimiter]_vars

\* -------------------------------------------- claims on the TradeLimiter
LastWasAllowSignal == lim_obs.call = "allow_signal"

\* The last call came with the key of the call before it (or was the first
\* call with any key) / with a key differing from the one before it.
SameKeyCall == LastWasAllowSignal /\ lim_obs.prev_key = lim_obs.key
DifferingKeyCall ==
    LastWasAllowSignal /\ IsSome(lim_obs.prev_key) /\ lim_obs.prev_key # lim_obs.key

\* After exactly max_signals_per_regime allowed calls with one key, the next
\* call with that key is denied with regime_attempt_limit.
DeniedAfterMaxAllowed ==
    (LastWasAllowSignal /\ lim_obs.prev_streak = limiter.max_signals_per_regime) =>
        /\ ~lim_obs.allowed
        /\ lim_obs.reason = "regime_attempt_limit"

\* A call with a differing key starts the attempt counter afresh.
DifferingKeyResets ==
    DifferingKeyCall =>
        /\ limiter.last_regime_key = lim_obs.key
        /\ limiter.regime_attempts = (IF lim_obs.allowed THEN 1 ELSE 0)

\* C9 as stated: after exactly max_signals_per_regime allowed allow_signal
\* calls with an identical key the next call with that key is denied with
\* regime_attempt_limit, and a call with a differing key resets the attempt
\* counter and is allowed.
C9_DifferingKeyAlwaysAllowed ==
    /\ DeniedAfterMaxAllowed
    /\ DifferingKeyResets
    /\ DifferingKeyCall => lim_obs.allowed

\* C9, amended: after exactly max_signals_per_regime allowed allow_signal
\* calls with an identical key the next call with that key is denied with
\* regime_attempt_limit; a call with a differing key resets the attempt
\* counter, and it is allowed exactly when max_signals_per_regime >= 1 and
\* the trade counter is below max_trades_per_day; otherwise it is denied,
\* with regime_attempt_limit when max_signals_per_regime = 0 and else with
\* daily_trade_limit.
C9_DifferingKeyResetsCounter ==
    /\ DeniedAfterMaxAllowed
    /\ DifferingKeyResets
    /\ DifferingKeyCall =>
          /\ lim_obs.allowed <=>
                 /\ limiter.max_signals_per_regime >= 1
                 /\ lim_obs.trades_before < limiter.max_trades_per_day
          /\ lim_obs.reason =
                 IF limiter.max_signals_per_regime < 1 THEN "regime_attempt_limit"
                 ELSE IF lim_obs.trades_before >= limiter.max_trades_per_day
                 THEN "daily_trade_limit"
                 ELSE "ok"

\* C9 witness: a key had been allowed max_signals_per_regime (two) times and
\* then denied; the last call came with a differing key and was allowed,
\* as the first attempt of the new key.
C9_Witness ==
    /\ DifferingKeyCall
    /\ limiter.max_signals_per_regime = 2
    /\ lim_obs.prev_reason = "regime_attempt_limit"
    /\ lim_obs.allowed
    /\ limiter.regime_attempts = 1

\* The same-key half of C9: the last call was the denied one after two allowed.
C9_WitnessDenied ==
    /\ SameKeyCall
    /\ lim_obs.prev_streak = 2
    /\ limiter.max_signals_per_regime = 2
    /\ ~lim_obs.allowed
    /\ lim_obs.reason = "regime_attempt_limit"

\* The case that C9 as stated misses: a differing key met once the trade
\* counter has reached max_trades_per_day.
C9_WitnessDailyLimit ==
    /\ DifferingKeyCall
    /\ limiter.max_signals_per_regime >= 1
    /\ ~lim_obs.allowed
    /\ lim_obs.reason = "daily_trade_limit"
    /\ limiter.regime_attempts = 0

\* The step is an allow_signal call / a mark_trade call.
AllowSignalStep ==
    lim_obs'.n = lim_obs.n + 1 /\ lim_obs'.call = "allow_signal"
MarkTradeStep ==
    lim_obs'.n = lim_obs.n + 1 /\ lim_obs'.call = "mark_trade"

\* The call of the step comes with the key the limiter has stored.
StoredKeyStep == limiter.last_regime_key = lim_obs'.key

\* The attempts counted for the key of the step when the call begins: those
\* of the stored key, none for any other key.
AttemptsAtCall == IF StoredKeyStep THEN limiter.regime_attempts ELSE 0

\* The call of the step meets both limits exhausted.
BothExhausted ==
    /\ AttemptsAtCall >= limiter.max_signals_per_regime
    /\ limiter.trade_count >= limiter.max_trades_per_day

\* What an allow_signal step does to the limiter.
AllowSignalCounts ==
    AllowSignalStep =>
        /\ limiter'.regime_attempts =
               AttemptsAtCall + (IF lim_obs'.allowed THEN 1 ELSE 0)
        /\ BothExhausted =>
               (~lim_obs'.allowed /\ lim_obs'.reason = "regime_attempt_limit")
        /\ (~lim_obs'.allowed /\ StoredKeyStep) => (limiter' = limiter)

MarkTradeKeepsAttempts ==
    MarkTradeStep => (limiter'.regime_attempts = limiter.regime_attempts)

AttemptsInRange ==
    limiter.regime_attempts \in 0 .. limiter.max_signals_per_regime

\* C29: after any sequence of allow_signal and mark_trade calls the regime
\* attempt counter stays within 0..max_signals_per_regime; allow_signal adds
\* one to it on a call it allows and nothing on a call it denies, and
\* mark_trade leaves it alone; the regime limit is checked before the daily
\* limit, so that a call that meets both exhausted is denied with
\* regime_attempt_limit; and a denied call with the stored key leaves the
\* whole limiter state unchanged.
C29_AttemptCounter ==
    /\ []AttemptsInRange
    /\ [][AllowSignalCounts /\ MarkTradeKeepsAttempts]_vars

\* C29 witness: a key was allowed up to its limit of two, the trade
\* counter has reached max_trades_per_day as well, and the last call, with
\* the stored key, was denied with regime_attempt_limit, the counter still
\* on its limit.
C29_Witness ==
    /\ SameKeyCall
    /\ ~lim_obs.allowed
    /\ lim_obs.reason = "regime_attempt_limit"
    /\ limiter.max_signals_per_regime = 2
    /\ limiter.regime_attempts = 2
    /\ limiter.trade_count >= limiter.max_trades_per_day

\* An allowed call that took the counter from one to two.
C29_WitnessAllowed ==
    /\ SameKeyCall
    /\ lim_obs.allowed
    /\ lim_obs.prev_streak = 1
    /\ limiter.regime_attempts = 2

\* A call denied by the daily limit alone, the counter staying below its limit.
C29_WitnessDailyOnly ==
    /\ SameKeyCall
    /\ lim_obs.reason = "daily_trade_limit"
    /\ limiter.regime_attempts = 1
    /\ limiter.max_signals_per_regime = 2

\* The key of the last call was not the one the limiter had stored.
NewKeyCall == LastWasAllowSignal /\ lim_obs.prev_key # lim_obs.key

\* C39: the limiter keeps attempt history only for the key seen last: an
\* allow_signal call whose key differs from the stored key sets the attempt
\* counter to 0 and adopts the key, also when the call is then denied by
\* the daily trade limit; so, while the daily trade limit is not reached
\* and max_signals_per_regime >= 1, the call is allowed and counted as the
\* key's first attempt, whether or not the key was exhausted before.
C39_OnlyLastKeyRemembered ==
    NewKeyCall =>
        /\ limiter.last_regime_key = lim_obs.key
        /\ limiter.regime_attempts = (IF lim_obs.allowed THEN 1 ELSE 0)
        /\ lim_obs.reason = "daily_trade_limit" =>
               (limiter.regime_attempts = 0 /\ limiter.max_signals_per_regime >= 1)
        /\ (/\ lim_obs.trades_before < limiter.max_trades_per_day
            /\ limiter.max_signals_per_regime >= 1) => lim_obs.allowed

\* C39 witness: a key was found exhausted earlier, one call with another
\* key came in between, and the last call, with the first key again, was
\* allowed as that key's first attempt.
C39_Witness ==
    /\ NewKeyCall
    /\ IsSome(lim_obs.prev_key)
    /\ Get(lim_obs.key) \in lim_obs.exhausted
    /\ lim_obs.n = MaxLimCalls
    /\ limiter.max_signals_per_regime = 1
    /\ lim_obs.allowed
    /\ limiter.regime_attempts = 1

\* A call with a new key denied by the daily trade limit after the stored
\* key had been allowed twice: the new key is stored, the counter is 0.
C39_WitnessDeniedAdopts ==
    /\ NewKeyCall
    /\ IsSome(lim_obs.prev_key)
    /\ lim_obs.n = MaxLimCalls
    /\ lim_obs.reason = "daily_trade_limit"
    /\ limiter.last_regime_key = lim_obs.key
    /\ limiter.regime_attempts = 0
    /\ limiter.max_signals_per_regime = 2

\* ====================================================================
\* DailyLimits.can_continue on its own: a day-start balance, caps and a
\* current equity are drawn, and the one call is made.  Amounts are in
\* whole currency units; the day-start balances are multiples of BpsDen, so
\* that equity can sit exactly on a cap and whole basis points around it.
\* ====================================================================
StartBalances == {0 - BpsDen, 0, BpsDen, 2 * BpsDen}
ProfitCaps == {1, 2}
LossCaps == {1, 2, 0 - 2}

\* The equity that is bps basis points of start above (below) start.
EquityAt(start, bps) == start + (start * bps) \div BpsDen

\* Equities around the day start and around either cap, a basis point apart.
Equities(start, dl) ==
    { EquityAt(start, centre + k) :
        centre \in {0, dl.daily_profit_cap_pct * PctDen,
                    0 - Abs(dl.daily_loss_cap_pct) * PctDen},
        k \in (0 - MaxBps)..MaxBps }

not_daily_vars == <<mode, run_state, broker, balance, pnl, limiter, last,
                    broker2, calls, calls2, lim_obs, aux_vars>>

InitDaily ==
    /\ \E start \in StartBalances, profit_cap \in ProfitCaps, loss_cap \in LossCaps :
          \E current \in Equities(start, NewDailyLimits(profit_cap, loss_cap)) :
              daily = [limits |-> NewDailyLimits(profit_cap, loss_cap),
                       start_balance |-> start, current_equity |-> current,
                       result |-> None]
    /\ mode = None /\ run_state = None /\ broker = None /\ balance = None
    /\ pnl = None /\ limiter = None /\ last = None /\ broker2 = None
    /\ calls = None /\ calls2 = None /\ lim_obs = None
    /\ AuxIdle

CanContinue ==
    /\ daily.result = None
    /\ daily' = [daily EXCEPT !.result =
                    Some(can_continue(daily.limits, daily.start_balance,
                                      daily.current_equity))]
    /\ UNCHANGED not_daily_vars

NextDaily == CanContinue

SpecDaily == InitDaily /\ [][NextDaily]_vars

\* --------------------------------------------- claims on the DailyLimits
\* The day's gain in basis points of the day-start balance (exact here).
GainBps == ((daily.current_equity - daily.start_balance) * BpsDen)
               \div daily.start_balance
ProfitCapBps == daily.limits.daily_profit_cap_pct * PctDen
LossCapBps == Abs(daily.limits.daily_loss_cap_pct) * PctDen
Denied(reason) == daily.result = Some([allowed |-> FALSE, reason |-> reason])
Allowed == daily.result = Some([allowed |-> TRUE, reason |-> "ok"])

\* C10: can_continue(start, current) returns, without failing, denied with
\* invalid_start_balance for start <= 0; otherwise, with pnl_pct =
\* (current - start) / start, it denies with daily_profit_cap_hit iff
\* pnl_pct >= profit cap, else denies with daily_loss_cap_hit iff
\* pnl_pct <= -|loss cap|, else allows; equity exactly at either cap stops
\* and one basis point inside either cap continues.
C10_CanContinueBoundaries ==
    IsSome(daily.result) =>
        /\ Denied("invalid_start_balance") \/ Denied("daily_profit_cap_hit")
             \/ Denied("daily_loss_cap_hit") \/ Allowed
        /\ Denied("invalid_start_balance") <=> daily.start_balance <= 0
        /\ daily.start_balance > 0 =>
              /\ Denied("daily_profit_cap_hit") <=> GainBps >= ProfitCapBps
              /\ Denied("daily_loss_cap_hit") <=>
                     (GainBps < ProfitCapBps /\ GainBps <= 0 - LossCapBps)
              /\ Allowed <=> (GainBps < ProfitCapBps /\ GainBps > 0 - LossCapBps)
              /\ GainBps = ProfitCapBps => Denied("daily_profit_cap_hit")
              /\ GainBps = 0 - LossCapBps => Denied("daily_loss_cap_hit")
              /\ GainBps = ProfitCapBps - 1 => Allowed
              /\ GainBps = 1 - LossCapBps => Allowed

\* C10 witness: equity exactly at the profit cap, and the call denied.
C10_Witness ==
    /\ daily.start_balance > 0
    /\ IsSome(daily.result)
    /\ GainBps = ProfitCapBps
    /\ Denied("daily_profit_cap_hit")

\* C10, further cases: exactly at the loss cap (given as a negative number),
\* one basis point inside the profit cap, and a day-start balance of zero.
C10_WitnessLossCap ==
    /\ daily.start_balance > 0
    /\ daily.limits.daily_loss_cap_pct < 0
    /\ GainBps = 0 - LossCapBps
    /\ Denied("daily_loss_cap_hit")

C10_WitnessInside ==
    /\ daily.start_balance > 0
    /\ GainBps = ProfitCapBps - 1
    /\ Allowed

C10_WitnessInvalidStart ==
    /\ daily.start_balance = 0
    /\ Denied("invalid_start_balance")

\* ====================================================================
\* PositionSizer.size on its own: an available quote balance and a price
\* are drawn, and the one call is made.
\* ====================================================================
\* balances in steps of half a money unit, from below zero up
AvailableInputs == {(u * MoneyScale) \div 2 : u \in (0 - 2)..(2 * MaxUsdt)}
PriceInputs == {0 - 1, 0, 1, 3, 7, 900}

InitSizer ==
    /\ \E available_usdt \in AvailableInputs, price \in PriceInputs :
          direct = [fn |-> "size", available_usdt |-> available_usdt,
                    price |-> price, result |-> None]
    /\ CoreIdle
    /\ pnl_obs = None /\ pc = None /\ tick = None /\ live = None /\ hist = None
    /\ MoreIdle

Size ==
    /\ direct.fn = "size"
    /\ direct.result = None
    /\ direct' = [direct EXCEPT !.result = Some(size(direct.available_usdt, direct.price))]
    /\ UNCHANGED not_direct_vars

NextSizer == Size

SpecSizer == InitSizer /\ [][NextSizer]_vars

\* ------------------------------------------- claims on the PositionSizer
\* One quantum of base, as a quantity.
Quantum == QtyScale
\* min_notional and available * risk_per_trade_pct, as money times PctDen
MinNotionalPct == min_notional_usdt * MoneyScale * PctDen
RiskNotionalPct == direct.available_usdt * risk_per_trade_pct
NotionalPct == IF RiskNotionalPct > MinNotionalPct THEN RiskNotionalPct ELSE MinNotionalPct
\* result * price, as money times PctDen
ValuePct(qty) == Notional(direct.price, qty) * PctDen

C11_WitnessFloor ==
    /\ IsSome(direct.result)
    /\ Get(direct.result) > 0
    /\ RiskNotionalPct < MinNotionalPct
    /\ ValuePct(Get(direct.result)) < NotionalPct

C11_WitnessTooSmall ==
    /\ IsSome(direct.result)
    /\ direct.available_usdt > 0 /\ direct.price > 0
    /\ NotionalPct > direct.available_usdt * PctDen
    /\ Get(direct.result) = 0

\* ====================================================================
\* EdgeGate.evaluate on its own: a gate and a regime are drawn, and the
\* one call is made.
\* ====================================================================
VolatilityInputs == {volatility_threshold - 1, volatility_threshold, volatility_threshold + 1}
TrendInputs ==
    {trend_strength_threshold - 1, trend_strength_threshold, trend_strength_threshold + 1}
MinConfidenceInputs == {0 - 1, 0, 34, min_confidence, 67, PctDen, PctDen + 1, 2 * PctDen}

InitEdge ==
    /\ \E volatility \in VolatilityInputs, trend_strength \in TrendInputs,
          is_range_bound \in BOOLEAN, min_conf \in MinConfidenceInputs :
          direct = [fn |-> "evaluate",
                    gate |-> NewEdgeGate(volatility_threshold, trend_strength_threshold,
                                         min_conf),
                    regime |-> [is_range_bound |-> is_range_bound,
                                volatility |-> volatility,
                                trend_strength |-> trend_strength],
                    result |-> None]
    /\ CoreIdle
    /\ pnl_obs = None /\ pc = None /\ tick = None /\ live = None /\ hist = None
    /\ MoreIdle

Evaluate ==
    /\ direct.fn = "evaluate"
    /\ direct.result = None
    /\ direct' = [direct EXCEPT !.result = Some(EdgeGate_evaluate(direct.gate, direct.regime))]
    /\ UNCHANGED not_direct_vars

NextEdge == Evaluate

SpecEdge == InitEdge /\ [][NextEdge]_vars

\* ------------------------------------------------ claims on the EdgeGate
VolOk == direct.regime.volatility <= direct.gate.volatility_threshold
TrendOk == direct.regime.trend_strength <= direct.gate.trend_strength_threshold
RangeOk == direct.regime.is_range_bound
TrueChecks == Cardinality({i \in 1..3 : <<VolOk, TrendOk, RangeOk>>[i]})

\* C12: is_on is true iff the three sub-checks (volatility <= threshold,
\* trend_strength <= threshold, is_range_bound) are all true and confidence
\* >= min_confidence, with confidence the number of true sub-checks over 3;
\* for min_confidence <= 1.0 is_on is the conjunction of the three, in all
\* eight combinations, and for min_confidence > 1.0 is_on is never true.
C12_EdgeIsConjunction ==
    IsSome(direct.result) =>
        LET r == Get(direct.result)
        IN  /\ r.confidence = TrueChecks
            /\ r.is_on <=> /\ VolOk /\ TrendOk /\ RangeOk
                           /\ TrueChecks * PctDen >= 3 * direct.gate.min_confidence
            /\ direct.gate.min_confidence <= PctDen =>
                   (r.is_on <=> (VolOk /\ TrendOk /\ RangeOk))
            /\ direct.gate.min_confidence > PctDen => ~r.is_on

\* C12 witness: two of the three sub-checks are true, the confidence of 2/3
\* reaches min_confidence, and the gate is off.
C12_Witness ==
    /\ IsSome(direct.result)
    /\ TrueChecks = 2
    /\ 2 * PctDen >= 3 * direct.gate.min_confidence
    /\ ~Get(direct.result).is_on

\* C12, further cases: all three true and the gate on with min_confidence at
\* 1.0; all three true and the gate off with min_confidence above 1.0.
C12_WitnessOn ==
    /\ IsSome(direct.result)
    /\ TrueChecks = 3
    /\ direct.gate.min_confidence = PctDen
    /\ Get(direct.result).is_on

C12_WitnessNeverOn ==
    /\ IsSome(direct.result)
    /\ TrueChecks = 3
    /\ direct.gate.min_confidence > PctDen
    /\ ~Get(direct.result).is_on

\* ====================================================================
\* PnLTracker on its own: mark_entry, mark_exit, update_equity and
\* mark_edge_state called in any order on a fresh tracker.
\* ====================================================================
GrossCosts == {100, 120}
GrossProceeds == {90, 100, 130}
EquityInputs == {0 - 50, 0, 60, 100, 150}

not_pnl_vars == <<mode, run_state, broker, balance, limiter, last, broker2,
                  calls, calls2, lim_obs, daily, direct, pc, tick, live, hist,
                  more_vars>>

InitPnl ==
    /\ pnl = NewPnL(0)
    /\ pnl_obs = [n |-> 0, call |-> "none", arg |-> 0, before |-> NewPnL(0),
                  exits_since_entry |-> 0]
    /\ mode = None /\ run_state = None /\ broker = None /\ balance = None
    /\ limiter = None /\ last = None /\ broker2 = None /\ calls = None
    /\ calls2 = None /\ lim_obs = None /\ daily = None /\ direct = None
    /\ pc = None /\ tick = None /\ live = None /\ hist = None
    /\ MoreIdle

MarkEntry ==
    /\ pnl_obs.n < MaxPnlCalls
    /\ \E gross_cost \in GrossCosts :
          /\ pnl' = mark_entry(pnl, gross_cost)
          /\ pnl_obs' = [n |-> pnl_obs.n + 1, call |-> "mark_entry", arg |-> gross_cost,
                         before |-> pnl, exits_since_entry |-> 0]
    /\ UNCHANGED not_pnl_vars

MarkExit ==
    /\ pnl_obs.n < MaxPnlCalls
    /\ \E gross_proceeds \in GrossProceeds :
          /\ pnl' = mark_exit(pnl, gross_proceeds)
          /\ pnl_obs' = [n |-> pnl_obs.n + 1, call |-> "mark_exit", arg |-> gross_proceeds,
                         before |-> pnl,
                         exits_since_entry |-> pnl_obs.exits_since_entry + 1]
    /\ UNCHANGED not_pnl_vars

UpdateEquity ==
    /\ pnl_obs.n < MaxPnlCalls
    /\ \E eq \in EquityInputs :
          /\ pnl' = update_equity(pnl, eq)
          /\ pnl_obs' = [pnl_obs EXCEPT !.n = @ + 1, !.call = "update_equity",
                                        !.arg = eq, !.before = pnl]
    /\ UNCHANGED not_pnl_vars

MarkEdgeState ==
    /\ pnl_obs.n < MaxPnlCalls
    /\ \E is_edge_on \in BOOLEAN :
          /\ pnl' = mark_edge_state(pnl, is_edge_on)
          /\ pnl_obs' = [pnl_obs EXCEPT !.n = @ + 1, !.call = "mark_edge_state",
                                        !.arg = BoolToInt(is_edge_on), !.before = pnl]
    /\ UNCHANGED not_pnl_vars

NextPnl == MarkEntry \/ MarkExit \/ UpdateEquity \/ MarkEdgeState

SpecPnl == InitPnl /\ [][NextPnl]_vars

\* ---------------------------------------------- claims on the PnLTracker
LastWasMarkExit == pnl_obs.call = "mark_exit"

\* C13: mark_exit called while no entry value is pending leaves every field
\* of the tracker as it was: realized_pnl, wins, losses, trades_closed,
\* daily_trade_count, peak_equity, max_drawdown, the tick counters and the
\* pending slot.
C13_ExitWithoutEntryIsNoOp ==
    (LastWasMarkExit /\ ~IsSome(pnl_obs.before.entry_value)) =>
        /\ pnl = pnl_obs.before
        /\ \A f \in DOMAIN pnl : pnl[f] = pnl_obs.before[f]
        /\ ~IsSome(pnl.entry_value)

\* C13 witness: mark_exit was called on a tracker with nothing pending that
\* had seen ticks and equity but never an entry.
C13_Witness ==
    /\ LastWasMarkExit
    /\ ~IsSome(pnl_obs.before.entry_value)
    /\ pnl.trades_closed = 0
    /\ pnl.total_ticks > 0
    /\ pnl.peak_equity > 0

\* C14: mark_exit(gross_proceeds) with a pending entry value p adds
\* gross_proceeds - p to realized_pnl, adds one to trades_closed and to
\* daily_trade_count, adds one to wins when the difference is >= 0 and to
\* losses otherwise (to exactly one of the two), and clears the pending
\* value, so that a second mark_exit without a new mark_entry changes nothing.
C14_ExitBooksTrade ==
    /\ (LastWasMarkExit /\ IsSome(pnl_obs.before.entry_value)) =>
          LET b == pnl_obs.before
              diff == pnl_obs.arg - Get(b.entry_value)
          IN  /\ pnl.realized_pnl = b.realized_pnl + diff
              /\ pnl.trades_closed = b.trades_closed + 1
              /\ pnl.daily_trade_count = b.daily_trade_count + 1
              /\ diff >= 0 => (pnl.wins = b.wins + 1 /\ pnl.losses = b.losses)
              /\ diff < 0 => (pnl.wins = b.wins /\ pnl.losses = b.losses + 1)
              /\ (pnl.wins - b.wins) + (pnl.losses - b.losses) = 1
              /\ ~IsSome(pnl.entry_value)
              /\ pnl.peak_equity = b.peak_equity
              /\ pnl.max_drawdown = b.max_drawdown
              /\ pnl.total_ticks = b.total_ticks
              /\ pnl.edge_off_ticks = b.edge_off_ticks
    /\ (LastWasMarkExit /\ pnl_obs.exits_since_entry >= 2) => pnl = pnl_obs.before
    /\ pnl.wins + pnl.losses = pnl.trades_closed

\* C14 witness: a trade was closed at its entry value and counted as a win.
C14_Witness ==
    /\ LastWasMarkExit
    /\ IsSome(pnl_obs.before.entry_value)
    /\ pnl_obs.arg = Get(pnl_obs.before.entry_value)
    /\ pnl.wins = pnl_obs.before.wins + 1
    /\ pnl.realized_pnl = pnl_obs.before.realized_pnl

\* C14, further cases: a losing trade; a second mark_exit in a row after a
\* closed trade.
C14_WitnessLoss ==
    /\ LastWasMarkExit
    /\ IsSome(pnl_obs.before.entry_value)
    /\ pnl.losses = 1
    /\ pnl.realized_pnl < 0

C14_WitnessSecondExit ==
    /\ LastWasMarkExit
    /\ pnl_obs.exits_since_entry = 2
    /\ pnl.trades_closed = 1

\* a/b <= c/d
FracLE(a, b, c, d) == ~FracLT(c, d, a, b)

\* C15: across any sequence of calls, max_drawdown never decreases and
\* peak_equity never decreases, and after an update_equity call peak_equity
\* is at least the equity passed.
C15_DrawdownAndPeakMonotone ==
    [][ /\ pnl'.peak_equity >= pnl.peak_equity
        /\ FracLE(pnl.max_drawdown.num, pnl.max_drawdown.den,
                  pnl'.max_drawdown.num, pnl'.max_drawdown.den)
        /\ pnl_obs'.call = "update_equity" => pnl'.peak_equity >= pnl_obs'.arg ]_vars

\* C15 witness: equity fell from its peak and came back in part: the
\* drawdown of the last call is below the largest, which is kept.
C15_Witness ==
    /\ pnl_obs.call = "update_equity"
    /\ pnl.peak_equity > pnl_obs.arg
    /\ pnl.max_drawdown.num > 0
    /\ FracLT(pnl.peak_equity - pnl_obs.arg, pnl.peak_equity,
              pnl.max_drawdown.num, pnl.max_drawdown.den)

\* ------------------------------- claims on the ledger kept by the engine
\* C16: at every tick boundary the ledger's pending entry value is set iff
\* the broker holds a position; mark_entry is called only on a tick that
\* takes the broker from FLAT to LONG (flat before the entry, by an exit of
\* the same tick at the latest), so it never overwrites the pending value
\* of an open trade, and mark_exit is never called with the slot empty.
C16_PendingIffPosition ==
    /\ [](IsSome(pnl.entry_value) <=> IsSome(broker.position))
    /\ [][ /\ Has(last'.trace, "mark_entry") =>
                  /\ Flat(broker) \/ Has(last'.trace, "mark_exit")
                  /\ ~Flat(broker')
                  /\ ~last'.position_open
                  /\ Index(last'.trace, "mark_exit") < Index(last'.trace, "mark_entry")
           /\ Has(last'.trace, "mark_exit") =>
                  /\ IsSome(pnl.entry_value)
                  /\ ~Flat(broker)
                  /\ Count(last'.trace, "mark_exit") = 1
           /\ Count(last'.trace, "mark_entry") <= 1 ]_vars

\* C16 witness: one tick closed a position and opened the next: the
\* pending value is that of the new entry.
C16_Witness ==
    /\ IsSome(last.exit)
    /\ IsSome(last.entry)
    /\ IsSome(broker.position)
    /\ IsSome(pnl.entry_value)
    /\ pnl.trades_closed = 1

\* C17: the quote and base balances change only on a tick with an entry
\* fill or an exit fill, by that fill's amounts (entry: quote less
\* price * qty + fee, base plus qty; exit: quote plus price * qty - fee,
\* base less qty), and no tick changes day_start_equity.
C17_BalanceMovesByFills ==
    [][ LET e == last'.entry
            x == last'.exit
            quote_in == IF IsSome(x)
                        THEN Get(x).price * Get(x).qty * PctDen - Get(x).fee ELSE 0
            quote_out == IF IsSome(e)
                         THEN Get(e).price * Get(e).qty * PctDen + Get(e).fee ELSE 0
            base_in == IF IsSome(e) THEN Get(e).qty ELSE 0
            base_out == IF IsSome(x) THEN Get(x).qty ELSE 0
        IN  /\ balance'.usdt_free = balance.usdt_free + quote_in - quote_out
            /\ balance'.btc_free = balance.btc_free + base_in - base_out
            /\ balance'.day_start_equity = balance.day_start_equity
            /\ (~IsSome(e) /\ ~IsSome(x)) => balance' = balance ]_vars

\* C17 witness: an exit was filled in part and at a fee: the base balance
\* keeps the rest, and the quote balance is not back at the day's start.
C17_Witness ==
    /\ IsSome(last.exit)
    /\ ~IsSome(last.entry)
    /\ Get(last.exit).is_partial
    /\ Get(last.exit).fee > 0
    /\ balance.btc_free > 0
    /\ balance.usdt_free # balance.day_start_equity

\* ====================================================================
\* The tick body statement by statement, with the ways a tick can end
\* early: an exception raised by a call (caught by the driver of step(),
\* ending run() and run_live()), and in run_live() the cancellation of the
\* coroutine, which takes effect at an await.  pc names the statement the
\* engine is at; the statements between a broker call that returned a fill
\* and the last write for that fill are assignments of floats and calls of
\* mark_exit, mark_entry and mark_trade, which neither raise nor await.
\* ====================================================================
NoLocals ==
    [n |-> 0, close |-> 0, regime |-> None, fires |-> FALSE, edge_on |-> FALSE,
     exit_fill |-> None, entry_fill |-> None, qty |-> 0, before |-> None,
     ended |-> "none"]

\* Every statement of the tick body taken as one that can raise.
AnyStatementRaises(at) == TRUE

\* The statements that call into a component whose code can raise:
\* classify, check_exit (order building), strategy.generate and the
\* formatting after it, try_open_long (order building).  A call that
\* raises has not yet written anything.
CanRaise(at) == at \in {"classify", "check_exit", "generate", "try_open_long"}

\* await feed.next_candle() is the one await of the tick loop.
AtAwait(at) == at = "idle"

not_stmt_vars == <<last, broker2, calls, calls2, lim_obs, daily, direct, pnl_obs,
                   live, hist, more_vars>>

InitStmt ==
    /\ mode \in {"step", "run", "run_live"}
    /\ run_state = "running"
    /\ \E seed \in Seeds : broker = NewBroker(seed)
    /\ \E start_usdt \in InitialBalances :
          /\ balance = NewBalance(start_usdt * MoneyScale)
          /\ pnl = NewPnL(start_usdt * MoneyScale)
    /\ limiter = NewLimiter(max_signals_per_regime, max_trades_per_day)
    /\ pc = "idle"
    /\ tick = NoLocals
    /\ last = None /\ broker2 = None /\ calls = None /\ calls2 = None
    /\ lim_obs = None /\ daily = None /\ direct = None /\ pnl_obs = None
    /\ live = None /\ hist = None
    /\ MoreIdle

\* The tick is over: back to the loop head, which ends run() and run_live()
\* after max_ticks candles.
EndTick(how) ==
    /\ pc' = "idle"
    /\ tick' = [tick EXCEPT !.ended = how]
    /\ run_state' = IF mode # "step" /\ (how = "daily_limit_stop" \/ tick.n = MaxStmtTicks)
                    THEN "done" ELSE run_state

\* candle = next_candle(); the lists are extended
TakeCandle ==
    /\ pc = "idle"
    /\ run_state = "running"
    /\ tick.n < MaxStmtTicks
    /\ \E close \in Prices, regime \in Regimes, fires \in BOOLEAN :
          tick' = [NoLocals EXCEPT !.n = tick.n + 1, !.close = close,
                                   !.regime = Some(regime), !.fires = fires,
                                   !.before = Some([broker |-> broker, balance |-> balance,
                                                    pnl |-> pnl, limiter |-> limiter]),
                                   !.ended = "running"]
    /\ pc' = "classify"
    /\ UNCHANGED <<mode, run_state, broker, balance, pnl, limiter>>
    /\ UNCHANGED not_stmt_vars

\* classify, evaluate, mark_edge_state, update_equity, can_continue
HeadStmts ==
    /\ pc = "classify"
    /\ LET edge == evaluate(Get(tick.regime))
           eq == equity(balance, tick.close)
       IN  /\ pnl' = update_equity(mark_edge_state(pnl, edge.is_on), eq)
           /\ IF StopsTick(can_continue(limits, balance.day_start_equity, eq))
              THEN EndTick("daily_limit_stop")
              ELSE /\ pc' = "check_exit"
                   /\ tick' = [tick EXCEPT !.edge_on = edge.is_on]
                   /\ UNCHANGED run_state
    /\ UNCHANGED <<mode, broker, balance, limiter>>
    /\ UNCHANGED not_stmt_vars

\* exit_fill, exit_reason = self.broker.check_exit(candle.ts, mark_price)
CheckExitStmt ==
    /\ pc = "check_exit"
    /\ \E ce \in {check_exit(broker, 1, tick.n, tick.close)} :
          /\ broker' = ce.broker
          /\ tick' = [tick EXCEPT !.exit_fill = ce.fill]
          /\ pc' = IF IsSome(ce.fill) THEN "exit_balance" ELSE "generate"
    /\ UNCHANGED <<mode, run_state, balance, pnl, limiter>>
    /\ UNCHANGED not_stmt_vars

\* self.balance.usdt_free += proceeds; self.balance.btc_free -= exit_fill.qty
ExitBalanceStmt ==
    /\ pc = "exit_balance"
    /\ balance' = ApplyExit(balance, Get(tick.exit_fill))
    /\ pc' = "exit_ledger"
    /\ UNCHANGED <<mode, run_state, broker, pnl, limiter, tick>>
    /\ UNCHANGED not_stmt_vars

\* self.pnl.mark_exit(gross_proceeds=proceeds)
ExitLedgerStmt ==
    /\ pc = "exit_ledger"
    /\ pnl' = mark_exit(pnl, Proceeds(Get(tick.exit_fill)))
    /\ pc' = "generate"
    /\ UNCHANGED <<mode, run_state, broker, balance, limiter, tick>>
    /\ UNCHANGED not_stmt_vars

\* generate, allow_signal, the skip tests and size
SignalStmts ==
    /\ pc = "generate"
    /\ LET signal == generate(tick.n, tick.close, tick.fires)
           position_open == IsSome(broker.position)
           al == LimiterStage(limiter, regime_key(Get(tick.regime)), tick.edge_on,
                              position_open)
           qty == size(balance.usdt_free, tick.close)
           skip == SkipReason(tick.edge_on, al.allowed, al.reason, position_open, qty)
       IN  IF ~IsSome(signal)
           THEN EndTick("no_signal") /\ UNCHANGED limiter
           ELSE /\ limiter' = al.limiter
                /\ IF skip # "ok"
                   THEN EndTick(skip)
                   ELSE /\ pc' = "try_open_long"
                        /\ tick' = [tick EXCEPT !.qty = qty]
                        /\ UNCHANGED run_state
    /\ UNCHANGED <<mode, broker, balance, pnl>>
    /\ UNCHANGED not_stmt_vars

\* entry_fill = self.broker.try_open_long(...)
TryOpenLongStmt ==
    /\ pc = "try_open_long"
    /\ \E ol \in {try_open_long(broker, 2, tick.n, tick.close, tick.qty,
                                take_profit_pct, stop_loss_pct)} :
          /\ broker' = ol.broker
          /\ IF IsSome(ol.fill)
             THEN /\ pc' = "entry_balance"
                  /\ tick' = [tick EXCEPT !.entry_fill = ol.fill]
                  /\ UNCHANGED run_state
             ELSE EndTick("entry_rejected")
    /\ UNCHANGED <<mode, balance, pnl, limiter>>
    /\ UNCHANGED not_stmt_vars

\* self.balance.usdt_free -= cost; self.balance.btc_free += entry_fill.qty
EntryBalanceStmt ==
    /\ pc = "entry_balance"
    /\ balance' = ApplyEntry(balance, Get(tick.entry_fill))
    /\ pc' = "entry_ledger"
    /\ UNCHANGED <<mode, run_state, broker, pnl, limiter, tick>>
    /\ UNCHANGED not_stmt_vars

\* self.pnl.mark_entry(gross_cost=cost)
EntryLedgerStmt ==
    /\ pc = "entry_ledger"
    /\ pnl' = mark_entry(pnl, Cost(Get(tick.entry_fill)))
    /\ pc' = "mark_trade"
    /\ UNCHANGED <<mode, run_state, broker, balance, limiter, tick>>
    /\ UNCHANGED not_stmt_vars

\* self.trade_limiter.mark_trade(), and the log line that ends the tick
MarkTradeStmt ==
    /\ pc = "mark_trade"
    /\ limiter' = mark_trade(limiter)
    /\ EndTick("entry")
    /\ UNCHANGED <<mode, broker, balance, pnl>>
    /\ UNCHANGED not_stmt_vars

\* The statement at pc raises: run_paper's loop catches it and goes on with
\* the next step(); run() and run_live() end with the exception.
Fault ==
    /\ pc \notin {"idle"}
    /\ CanRaise(pc)
    /\ pc' = "idle"
    /\ tick' = [tick EXCEPT !.ended = "fault"]
    /\ run_state' = IF mode = "step" THEN run_state ELSE "failed"
    /\ UNCHANGED <<mode, broker, balance, pnl, limiter>>
    /\ UNCHANGED not_stmt_vars

\* run_live() is cancelled: CancelledError is raised at the await.
Cancel ==
    /\ mode = "run_live"
    /\ run_state = "running"
    /\ AtAwait(pc)
    /\ run_state' = "cancelled"
    /\ tick' = [tick EXCEPT !.ended = "cancelled"]
    /\ UNCHANGED <<mode, pc, broker, balance, pnl, limiter>>
    /\ UNCHANGED not_stmt_vars

NextStmt ==
    \/ TakeCandle \/ HeadStmts \/ CheckExitStmt \/ ExitBalanceStmt \/ ExitLedgerStmt
    \/ SignalStmts \/ TryOpenLongStmt \/ EntryBalanceStmt \/ EntryLedgerStmt
    \/ MarkTradeStmt \/ Fault \/ Cancel

SpecStmt == InitStmt /\ [][NextStmt]_vars

\* ------------------------------------- claims on the statements of a tick
\* A tick has ended, in whichever way, and the engine can be looked at.
TickEnded == pc = "idle" /\ IsSome(tick.before)

\* C18: the writes belonging to one fill (broker position, quote and base
\* balance, mark_exit or mark_entry, and mark_trade for an entry) are made
\* all or none: in every state after a tick has ended, by its last
\* statement, by an exception or by cancellation, a position that the tick
\* closed or opened comes with that fill's balance and ledger changes.
C18_FillWritesAreAtomic ==
    TickEnded =>
        LET b == Get(tick.before)
            x == tick.exit_fill
            e == tick.entry_fill
            quote_in == IF IsSome(x)
                        THEN Get(x).price * Get(x).qty * PctDen - Get(x).fee ELSE 0
            quote_out == IF IsSome(e)
                         THEN Get(e).price * Get(e).qty * PctDen + Get(e).fee ELSE 0
        IN  /\ broker.position # b.broker.position => (IsSome(x) \/ IsSome(e))
            /\ balance.usdt_free = b.balance.usdt_free + quote_in - quote_out
            /\ balance.btc_free = b.balance.btc_free
                                    + (IF IsSome(e) THEN Get(e).qty ELSE 0)
                                    - (IF IsSome(x) THEN Get(x).qty ELSE 0)
            /\ pnl.trades_closed = b.pnl.trades_closed + (IF IsSome(x) THEN 1 ELSE 0)
            /\ limiter.trade_count = b.limiter.trade_count + (IF IsSome(e) THEN 1 ELSE 0)
            /\ IsSome(x) => /\ IsSome(b.broker.position)
                            /\ pnl.realized_pnl = b.pnl.realized_pnl + quote_in
                                                    - Get(b.pnl.entry_value)
            /\ IsSome(e) => /\ IsSome(broker.position)
                            /\ Get(broker.position).qty = Get(e).qty
                            /\ pnl.entry_value = Some(quote_out)
            /\ ~IsSome(e) => (IsSome(broker.position) <=>
                                 (IsSome(b.broker.position) /\ ~IsSome(x)))
            /\ IsSome(pnl.entry_value) <=> IsSome(broker.position)

\* C18 witness: a tick closed the position and was then ended by an
\* exception raised after the exit: position, balances and ledger all show
\* the exit.
C18_Witness ==
    /\ TickEnded
    /\ tick.ended = "fault"
    /\ IsSome(tick.exit_fill)
    /\ ~IsSome(broker.position)
    /\ pnl.trades_closed = 1
    /\ balance.btc_free < Get(tick.before).balance.btc_free

\* C18, streaming mode: run_live was cancelled after a tick with an entry.
C18_WitnessCancelled ==
    /\ mode = "run_live"
    /\ run_state = "cancelled"
    /\ IsSome(tick.entry_fill)
    /\ IsSome(broker.position)

\* ====================================================================
\* A streaming run and its stream task.  Two drivers start the task for
\* feed.connect(): TradingEngine.run_live (asyncio.create_task, kept in
\* ws_task) and main of run_live_paper (loop.create_task, result not kept).
\* The task runs until it is cancelled and has closed its websocket
\* ("cancelled") or its connection fails ("failed").  What a tick does to
\* the engine is left out here.
\* ====================================================================
not_live_vars == <<core_vars, direct, pnl_obs, pc, tick, hist, more_vars>>

\* The state right after the task has been created.
InitLive ==
    /\ \E driver \in {"run_live", "run_live_paper"} :
          live = [driver |-> driver, at |-> "warmup", ws_task |-> "running",
                  warm |-> 0, ticks |-> 0, running |-> TRUE, ended |-> "no"]
    /\ CoreIdle
    /\ direct = None /\ pnl_obs = None /\ pc = None /\ tick = None /\ hist = None
    /\ MoreIdle

\* ---- the stream task
\* the task, cancelled, leaves "async with websockets.connect(url)"
StreamTeardown ==
    /\ live.ws_task = "cancel_requested"
    /\ live' = [live EXCEPT !.ws_task = "cancelled"]
    /\ UNCHANGED not_live_vars

\* the connection fails and the task ends with the exception
StreamFails ==
    /\ live.ws_task = "running"
    /\ live' = [live EXCEPT !.ws_task = "failed"]
    /\ UNCHANGED not_live_vars

\* ---- TradingEngine.run_live
\* for _ in range(warmup): candle = await feed.next_candle()
RunLiveWarmup ==
    /\ live.driver = "run_live" /\ live.at = "warmup"
    /\ live.ws_task = "running"
    /\ live' = [live EXCEPT !.warm = @ + 1,
                            !.at = IF live.warm + 1 = MaxWarmup THEN "ticks" ELSE "warmup"]
    /\ UNCHANGED not_live_vars

\* for _ in range(self.max_ticks): one candle processed; the daily limit may
\* break out of the loop, and the loop ends with the budget
RunLiveCandle ==
    /\ live.driver = "run_live" /\ live.at = "ticks"
    /\ live.ws_task = "running"
    /\ \E can_trade \in BOOLEAN :
          live' = [live EXCEPT
                      !.ticks = @ + 1,
                      !.at = IF ~can_trade \/ live.ticks + 1 = MaxLiveTicks
                             THEN "finally" ELSE "ticks",
                      !.ended = IF ~can_trade THEN "daily_limit_stop"
                                ELSE IF live.ticks + 1 = MaxLiveTicks THEN "budget"
                                ELSE "no"]
    /\ UNCHANGED not_live_vars

\* an exception inside the try block
RunLiveFault ==
    /\ live.driver = "run_live" /\ live.at \in {"warmup", "ticks"}
    /\ live' = [live EXCEPT !.at = "finally", !.ended = "fault"]
    /\ UNCHANGED not_live_vars

\* the coroutine is cancelled while it awaits feed.next_candle()
RunLiveCancelled ==
    /\ live.driver = "run_live" /\ live.at \in {"warmup", "ticks"}
    /\ live' = [live EXCEPT !.at = "finally", !.ended = "cancelled"]
    /\ UNCHANGED not_live_vars

\* finally: ws_task.cancel()
RunLiveCancelsTask ==
    /\ live.driver = "run_live" /\ live.at = "finally"
    /\ live' = [live EXCEPT !.at = "await_ws_task",
                            !.ws_task = IF @ = "running" THEN "cancel_requested" ELSE @]
    /\ UNCHANGED not_live_vars

\* with contextlib.suppress(asyncio.CancelledError): await ws_task
RunLiveAwaitsTask ==
    /\ live.driver = "run_live" /\ live.at = "await_ws_task"
    /\ live.ws_task \in {"cancelled", "failed"}
    /\ live' = [live EXCEPT !.at = "finished"]
    /\ UNCHANGED not_live_vars

\* ---- main of run_live_paper
\* shutdown_handler: running = False
MainSignal ==
    /\ live.driver = "run_live_paper" /\ live.at \in {"warmup", "ticks"}
    /\ live.running
    /\ live' = [live EXCEPT !.running = FALSE]
    /\ UNCHANGED not_live_vars

\* for _ in range(60): candle = loop.run_until_complete(feed.next_candle())
MainWarmup ==
    /\ live.driver = "run_live_paper" /\ live.at = "warmup"
    /\ live.ws_task = "running"
    /\ live' = [live EXCEPT !.warm = @ + 1,
                            !.at = IF live.warm + 1 = MaxWarmup THEN "ticks" ELSE "warmup"]
    /\ UNCHANGED not_live_vars

\* while running: false, so on to finally
MainLoopExit ==
    /\ live.driver = "run_live_paper" /\ live.at = "ticks"
    /\ ~live.running
    /\ live' = [live EXCEPT !.at = "shutdown", !.ended = "flag"]
    /\ UNCHANGED not_live_vars

\* while running: a candle is taken and engine.step_live(candle) is called;
\* TradingEngine has no step_live, the AttributeError is caught by
\* "except Exception" around the loop, then finally
MainCandleFaults ==
    /\ live.driver = "run_live_paper" /\ live.at = "ticks"
    /\ live.running
    /\ live.ws_task = "running"
    /\ live' = [live EXCEPT !.ticks = @ + 1, !.at = "shutdown", !.ended = "fault"]
    /\ UNCHANGED not_live_vars

\* finally: engine.shutdown()
MainShutdown ==
    /\ live.driver = "run_live_paper" /\ live.at = "shutdown"
    /\ live' = [live EXCEPT !.at = "finished"]
    /\ UNCHANGED not_live_vars

NextLive ==
    \/ StreamTeardown \/ StreamFails
    \/ RunLiveWarmup \/ RunLiveCandle \/ RunLiveFault \/ RunLiveCancelled
    \/ RunLiveCancelsTask \/ RunLiveAwaitsTask
    \/ MainSignal \/ MainWarmup \/ MainLoopExit \/ MainCandleFaults \/ MainShutdown

SpecLive == InitLive /\ [][NextLive]_vars

\* ------------------------------------------ claims on the streaming run
StreamTaskOver == live.ws_task \in {"cancelled", "failed"}

\* C19: on every way a streaming run ends, the stream task started for
\* feed.connect() has been cancelled and its teardown awaited by the time
\* the run has finished, so that no stream task is left running, under
\* run_live and under the run_live_paper driver alike.
C19_NoStreamTaskLeftRunning ==
    live.at = "finished" => StreamTaskOver

\* The same for run_live alone.
RunLiveLeavesNoStreamTask ==
    (live.driver = "run_live" /\ live.at = "finished") => StreamTaskOver

\* run_live has finished after each way of ending, the task cancelled.
RunLiveFinishedCancelled ==
    /\ live.driver = "run_live" /\ live.at = "finished"
    /\ live.ended = "cancelled" /\ live.ws_task = "cancelled"

\* main of run_live_paper has finished and the stream task is running.
MainLeavesStreamTask ==
    /\ live.driver = "run_live_paper" /\ live.at = "finished"
    /\ live.ws_task = "running"

\* ====================================================================
\* The rolling history of closes (with it highs and lows) that a driver
\* hands to RegimeDetector.classify and to the strategy.  A candle is known
\* by its number in the order of production, which is the order of its
\* timestamps; the history is the sequence of the numbers of its candles.
\* MarketFeed produces a candle on demand; LiveMarketFeed puts completed
\* candles into a bounded queue, dropping the oldest when it is full.
\* ====================================================================
not_hist_vars == <<core_vars, direct, pnl_obs, pc, tick, live, more_vars>>

InitHist ==
    /\ \E driver \in {"step", "run", "run_live"} :
          hist = [driver |-> driver, produced |-> 0, queue |-> <<>>,
                  started |-> FALSE, history |-> <<>>, ticks |-> 0]
    /\ CoreIdle
    /\ direct = None /\ pnl_obs = None /\ pc = None /\ tick = None /\ live = None
    /\ MoreIdle

\* MarketFeed.warmup(n): the next n candles, in order
Warmup(produced, n) == [i \in 1..n |-> produced + i]

\* LiveMarketFeed._enqueue_candle: put_nowait, and on QueueFull the oldest
\* candle is taken out first
Enqueue(queue, candle) ==
    IF Len(queue) < MaxQueue THEN Append(queue, candle)
    ELSE Append(Tail(queue), candle)

\* step(), first call: candle = next_candle(), then the lists are made from
\* warmup(60), then the candle is appended
StepHistory(candle, warmup_candles) == Append(warmup_candles, candle)

HistStepFirst ==
    /\ hist.driver = "step" /\ ~hist.started
    /\ LET candle == hist.produced + 1
           warmup_candles == Warmup(hist.produced + 1, MaxWarmup)
       IN  hist' = [hist EXCEPT !.produced = @ + 1 + MaxWarmup,
                                !.started = TRUE,
                                !.history = StepHistory(candle, warmup_candles),
                                !.ticks = 1]
    /\ UNCHANGED not_hist_vars

\* step(), later calls
HistStep ==
    /\ hist.driver = "step" /\ hist.started
    /\ hist.ticks < MaxLiveTicks
    /\ hist' = [hist EXCEPT !.produced = @ + 1,
                            !.history = Append(@, hist.produced + 1),
                            !.ticks = @ + 1]
    /\ UNCHANGED not_hist_vars

\* run(): candles = self.market.warmup(60)
HistRunWarmup ==
    /\ hist.driver = "run" /\ ~hist.started
    /\ hist' = [hist EXCEPT !.produced = @ + MaxWarmup,
                            !.started = TRUE,
                            !.history = Warmup(hist.produced, MaxWarmup)]
    /\ UNCHANGED not_hist_vars

\* run(): one iteration of the loop
HistRunCandle ==
    /\ hist.driver = "run" /\ hist.started
    /\ hist.ticks < MaxLiveTicks
    /\ hist' = [hist EXCEPT !.produced = @ + 1,
                            !.history = Append(@, hist.produced + 1),
                            !.ticks = @ + 1]
    /\ UNCHANGED not_hist_vars

\* the stream completes a candle
FeedEnqueues ==
    /\ hist.driver = "run_live"
    /\ hist.produced < 2 * (MaxWarmup + MaxLiveTicks)
    /\ hist' = [hist EXCEPT !.produced = @ + 1,
                            !.queue = Enqueue(@, hist.produced + 1)]
    /\ UNCHANGED not_hist_vars

\* run_live(): candle = await feed.next_candle(), in the warm-up loop
HistLiveWarmup ==
    /\ hist.driver = "run_live"
    /\ Len(hist.history) < MaxWarmup
    /\ hist.queue # <<>>
    /\ hist' = [hist EXCEPT !.queue = Tail(@),
                            !.history = Append(@, Head(hist.queue))]
    /\ UNCHANGED not_hist_vars

\* run_live(): candle = await feed.next_candle(), in the tick loop
HistLiveCandle ==
    /\ hist.driver = "run_live"
    /\ Len(hist.history) >= MaxWarmup
    /\ hist.ticks < MaxLiveTicks
    /\ hist.queue # <<>>
    /\ hist' = [hist EXCEPT !.queue = Tail(@),
                            !.history = Append(@, Head(hist.queue)),
                            !.ticks = @ + 1]
    /\ UNCHANGED not_hist_vars

NextHist ==
    \/ HistStepFirst \/ HistStep \/ HistRunWarmup \/ HistRunCandle
    \/ FeedEnqueues \/ HistLiveWarmup \/ HistLiveCandle

SpecHist == InitHist /\ [][NextHist]_vars

\* ------------------------------------------ claims on the rolling history
InProductionOrder(history) ==
    \A i, j \in 1..Len(history) : i < j => history[i] < history[j]

\* C20: in every delivery mode the rolling history handed to classify and
\* to the strategy is in candle production (timestamp) order, and the
\* candle of each tick is newer than all before it, also on the first call
\* of step(), which takes both the tick's candle and the warm-up candles
\* from the feed.
C20_HistoryInProductionOrder ==
    InProductionOrder(hist.history)

\* The same for run() and run_live() alone.
LoopHistoryInProductionOrder ==
    hist.driver \in {"run", "run_live"} => InProductionOrder(hist.history)

\* run_live has processed its ticks on a stream that dropped candles.
LiveHistoryWithDrops ==
    /\ hist.driver = "run_live"
    /\ hist.ticks = MaxLiveTicks
    /\ hist.history[Len(hist.history)] > Len(hist.history)

\* After the first call of step() the oldest candle is last in the history.
StepHistoryOutOfOrder ==
    /\ hist.driver = "step"
    /\ hist.ticks = 1
    /\ hist.history[Len(hist.history)] = 1
    /\ hist.history[1] = 2

\* The room a rolling window takes that holds the warm-up candles and the
\* candle of the tick.
HistoryCapacity == MaxWarmup + 1

\* C23: the rolling close/high/low history is bounded: its length never
\* exceeds a fixed capacity, however many ticks are processed.
C23_HistoryBounded ==
    Len(hist.history) <= HistoryCapacity

\* Nothing is ever taken out of the history: after n ticks it holds the
\* warm-up candles and n more.
HistoryGrowsWithTicks ==
    hist.ticks > 0 => Len(hist.history) = MaxWarmup + hist.ticks

\* step() has been called MaxLiveTicks times and the history holds every
\* candle it was given.
StepHistoryKeepsEverything ==
    /\ hist.driver = "step"
    /\ hist.ticks = MaxLiveTicks
    /\ Len(hist.history) = MaxWarmup + MaxLiveTicks

\* ====================================================================
\* The loops of the two entry points around the engine's ticks: main of
\* run_paper ("while running: try: engine.step() ... except Exception")
\* and main of run_live_paper ("try: warm-up; while running: ...
\* engine.step_live(candle) ... except Exception ... finally").  What a
\* tick does to the engine is left out; a tick either returns or raises.
\* ====================================================================
not_drv_vars == <<core_vars, direct, pnl_obs, pc, tick, live, hist, twin, feed>>

InitDrv ==
    /\ \E driver \in {"run_paper", "run_live_paper"} :
          drv = [driver |-> driver,
                 at |-> IF driver = "run_paper" THEN "loop" ELSE "warmup",
                 running |-> TRUE, outcomes |-> <<>>, printed |-> 0,
                 ended |-> "no"]
    /\ CoreIdle
    /\ direct = None /\ pnl_obs = None /\ pc = None /\ tick = None
    /\ live = None /\ hist = None /\ twin = None /\ feed = None

\* shutdown_handler: running = False
DrvSignal ==
    /\ drv.at \in {"warmup", "loop"}
    /\ drv.running
    /\ drv' = [drv EXCEPT !.running = FALSE]
    /\ UNCHANGED not_drv_vars

\* run_paper: engine.step() returns, time.sleep(1)
PaperTick ==
    /\ drv.driver = "run_paper" /\ drv.at = "loop" /\ drv.running
    /\ Len(drv.outcomes) < MaxDrvTicks
    /\ drv' = [drv EXCEPT !.outcomes = Append(@, "ok")]
    /\ UNCHANGED not_drv_vars

\* run_paper: engine.step() raises; except Exception inside the loop prints
\* "Runtime error", sleeps, and the loop goes on
PaperTickFaults ==
    /\ drv.driver = "run_paper" /\ drv.at = "loop" /\ drv.running
    /\ Len(drv.outcomes) < MaxDrvTicks
    /\ drv' = [drv EXCEPT !.outcomes = Append(@, "fault"), !.printed = @ + 1]
    /\ UNCHANGED not_drv_vars

\* run_paper: while running is false
PaperLoopExit ==
    /\ drv.driver = "run_paper" /\ drv.at = "loop" /\ ~drv.running
    /\ drv' = [drv EXCEPT !.at = "shutdown", !.ended = "flag"]
    /\ UNCHANGED not_drv_vars

\* run_live_paper: the 60 warm-up candles have been taken
LiveMainWarmup ==
    /\ drv.driver = "run_live_paper" /\ drv.at = "warmup"
    /\ drv' = [drv EXCEPT !.at = "loop"]
    /\ UNCHANGED not_drv_vars

\* run_live_paper: a candle is taken and engine.step_live(candle) is called;
\* TradingEngine has no step_live, so every tick raises (AttributeError, or
\* before it an error of the feed); except Exception around the loop prints
\* "Runtime error", sleeps, then finally
LiveMainTickFaults ==
    /\ drv.driver = "run_live_paper" /\ drv.at = "loop" /\ drv.running
    /\ Len(drv.outcomes) < MaxDrvTicks
    /\ drv' = [drv EXCEPT !.outcomes = Append(@, "fault"), !.printed = @ + 1,
                          !.at = "shutdown", !.ended = "fault"]
    /\ UNCHANGED not_drv_vars

\* run_live_paper: a warm-up candle raises
LiveMainWarmupFaults ==
    /\ drv.driver = "run_live_paper" /\ drv.at = "warmup"
    /\ drv' = [drv EXCEPT !.printed = @ + 1, !.at = "shutdown", !.ended = "fault"]
    /\ UNCHANGED not_drv_vars

\* run_live_paper: while running is false
LiveMainLoopExit ==
    /\ drv.driver = "run_live_paper" /\ drv.at = "loop" /\ ~drv.running
    /\ drv' = [drv EXCEPT !.at = "shutdown", !.ended = "flag"]
    /\ UNCHANGED not_drv_vars

\* engine.shutdown() and the closing print
DrvShutdown ==
    /\ drv.at = "shutdown"
    /\ drv' = [drv EXCEPT !.at = "finished"]
    /\ UNCHANGED not_drv_vars

NextDrv ==
    \/ DrvSignal \/ PaperTick \/ PaperTickFaults \/ PaperLoopExit
    \/ LiveMainWarmup \/ LiveMainTickFaults
    \/ LiveMainWarmupFaults \/ LiveMainLoopExit \/ DrvShutdown

SpecDrv == InitDrv /\ [][NextDrv]_vars

\* ------------------------------------------ claims on the drivers' loops
LastTickFaulted ==
    /\ drv.outcomes # <<>>
    /\ drv.outcomes[Len(drv.outcomes)] = "fault"

\* C21: a fault raised while processing one tick is logged and the tick is
\* skipped, and it never ends the run: after a faulting tick, with the
\* running flag still set, the driver is back at the head of its loop to
\* take the next tick, in run_paper and in run_live_paper alike.
C21_FaultNeverAbortsRun ==
    (LastTickFaulted /\ drv.running) => drv.at = "loop"

\* The same for run_paper alone, with every fault printed.
PaperFaultNeverAbortsRun ==
    drv.driver = "run_paper" =>
        /\ drv.at \in {"shutdown", "finished"} => ~drv.running
        /\ drv.printed = Cardinality({i \in 1..Len(drv.outcomes) :
                                        drv.outcomes[i] = "fault"})

\* run_paper has processed a tick after a faulting one.
PaperGoesOnAfterFault ==
    /\ drv.driver = "run_paper"
    /\ Len(drv.outcomes) >= 2
    /\ drv.outcomes[1] = "fault" /\ drv.outcomes[2] = "ok"

\* run_live_paper has finished on its first tick, the running flag set.
LiveMainAbortedByFault ==
    /\ drv.driver = "run_live_paper" /\ drv.at = "finished"
    /\ drv.running /\ drv.ended = "fault"
    /\ drv.outcomes = <<"fault">>

\* ====================================================================
\* The indicators behind RegimeDetector.classify and the two derived
\* ratios of PnLTracker, as pure functions.  A float result is the exact
\* fraction num / den; a call that raises gives the exception's name
\* instead.  Lists are indexed from 1 here and from 0 in the program.
\* ====================================================================
Value(num, den) == [raised |-> FALSE, num |-> num, den |-> den]
Raised(error) == [raised |-> TRUE, error |-> error]

\* the place of values[k] for a Python index k, negative from the end
Place(values, k) == IF k < 0 THEN Len(values) + k + 1 ELSE k + 1

\* values[k], or IndexError
At(values, k) ==
    IF Place(values, k) \in 1..Len(values)
    THEN Value(values[Place(values, k)], 1)
    ELSE Raised("IndexError")

\* values[-window:], which is the whole list for window = 0
LastWindow(values, window) ==
    LET first == IF window = 0 THEN 1
                 ELSE IF window < 0 THEN Min(0 - window, Len(values)) + 1
                 ELSE Max(Len(values) - window, 0) + 1
    IN  SubSeq(values, first, Len(values))

\* A percentage change that divides whatever the old value is.
pct_change_unguarded(new_value, old_value) ==
    IF old_value = 0 THEN Raised("ZeroDivisionError")
    ELSE Value(new_value - old_value, old_value)

pct_change(new_value, old_value) ==
    IF old_value = 0 THEN Value(0, 1)
    ELSE Value(new_value - old_value, old_value)

AbsValue(v) == IF v.raised THEN v ELSE Value(Abs(v.num), Abs(v.den))

\* the sum of a list of fractions
RECURSIVE SumValues(_)
SumValues(vs) ==
    IF vs = <<>> THEN Value(0, 1)
    ELSE LET rest == SumValues(Tail(vs))
         IN  IF Head(vs).raised THEN Head(vs)
             ELSE IF rest.raised THEN rest
             ELSE Value(Head(vs).num * rest.den + rest.num * Head(vs).den,
                        Head(vs).den * rest.den)

\* statistics.mean of a non-empty list
mean(vs) ==
    LET total == SumValues(vs)
    IN  IF total.raised THEN total ELSE Value(total.num, total.den * Len(vs))

realized_volatility(closes, window) ==
    IF Len(closes) < window + 1 THEN Value(0, 1)
    ELSE LET first == Len(closes) - window + 1
             n == Max(Len(closes) - first + 1, 0)
             rets == [j \in 1..n |->
                         AbsValue(pct_change(closes[first + j - 1],
                                             closes[first + j - 2]))]
         IN  IF rets # <<>> THEN mean(rets) ELSE Value(0, 1)

trend_strength(closes, window) ==
    IF Len(closes) < window THEN Value(0, 1)
    ELSE LET start == At(closes, 0 - window)
             end == At(closes, 0 - 1)
         IN  IF start.raised THEN start
             ELSE IF end.raised THEN end
             ELSE AbsValue(pct_change(end.num, start.num))

RECURSIVE MaxOf(_)
MaxOf(values) ==
    IF Len(values) = 1 THEN values[1] ELSE Max(Head(values), MaxOf(Tail(values)))

RECURSIVE MinOf(_)
MinOf(values) ==
    IF Len(values) = 1 THEN values[1] ELSE Min(Head(values), MinOf(Tail(values)))

range_bound_ratio(highs, lows, closes) ==
    IF highs = <<>> \/ lows = <<>> \/ closes = <<>> THEN Value(1, 1)
    ELSE LET price_range == MaxOf(highs) - MinOf(lows)
             net_move == Abs(closes[Len(closes)] - closes[1])
         IN  IF price_range <= 0 THEN Value(1, 1)
             ELSE Value(net_move, price_range)

\* a/b <= c/d for b, d > 0
ValueLE(v, num, den) == v.num * den <= num * v.den

\* RegimeDetector.classify; d is the detector
classify(d, highs, lows, closes) ==
    LET vol == realized_volatility(closes, d.volatility_window)
        tr == trend_strength(closes, d.trend_window)
        rr == range_bound_ratio(LastWindow(highs, d.trend_window),
                                LastWindow(lows, d.trend_window),
                                LastWindow(closes, d.trend_window))
    IN  IF vol.raised THEN vol
        ELSE IF tr.raised THEN tr
        ELSE IF rr.raised THEN rr
        ELSE [raised |-> FALSE,
              is_range_bound |-> ValueLE(rr, d.range_ratio_threshold, PctDen),
              volatility |-> vol, trend_strength |-> tr, range_ratio |-> rr]

win_rate(p) ==
    IF p.trades_closed = 0 THEN Value(0, 1) ELSE Value(p.wins, p.trades_closed)

edge_off_ratio(p) ==
    IF p.total_ticks = 0 THEN Value(0, 1) ELSE Value(p.edge_off_ticks, p.total_ticks)

\* ---- the functions on their own: the inputs are drawn, one call is made
\* candles by close, high, low: flat at zero, flat, wide, rising, and one
\* with its high below its low
CandleInputs ==
    { [close |-> 0, high |-> 0, low |-> 0],
      [close |-> 1, high |-> 1, low |-> 1],
      [close |-> 1, high |-> 2, low |-> 0],
      [close |-> 2, high |-> 2, low |-> 1],
      [close |-> 2, high |-> 1, low |-> 2] }

Histories == UNION {[1..n -> CandleInputs] : n \in 0..MaxHist}

Detectors ==
    [volatility_window : 1..(MaxHist - 1), trend_window : 1..MaxHist,
     range_ratio_threshold : {35}]

\* trackers by closed trades and wins, recorded ticks and edge-off ticks
TrackerInputs ==
    { [NewPnL(0) EXCEPT !.trades_closed = c[1], !.wins = c[2],
                        !.losses = c[1] - c[2],
                        !.total_ticks = c[3], !.edge_off_ticks = c[4]] :
        c \in {<<0, 0, 0, 0>>, <<0, 0, 2, 1>>, <<1, 0, 2, 0>>, <<2, 1, 0, 0>>,
               <<2, 2, 2, 1>>} }

Closes(candles) == [i \in 1..Len(candles) |-> candles[i].close]
Highs(candles) == [i \in 1..Len(candles) |-> candles[i].high]
Lows(candles) == [i \in 1..Len(candles) |-> candles[i].low]

InitNeutral ==
    /\ \E candles \in Histories, d \in Detectors, p \in TrackerInputs :
          direct = [fn |-> "inputs", candles |-> candles, detector |-> d,
                    tracker |-> p, result |-> None]
    /\ CoreIdle
    /\ pnl_obs = None /\ pc = None /\ tick = None /\ live = None /\ hist = None
    /\ MoreIdle

Classify ==
    /\ direct.fn = "inputs"
    /\ direct' = [direct EXCEPT
                     !.fn = "classify",
                     !.result = classify(direct.detector, Highs(direct.candles),
                                         Lows(direct.candles), Closes(direct.candles))]
    /\ UNCHANGED not_direct_vars

WinRate ==
    /\ direct.fn = "inputs"
    /\ direct' = [direct EXCEPT !.fn = "win_rate", !.result = win_rate(direct.tracker)]
    /\ UNCHANGED not_direct_vars

EdgeOffRatio ==
    /\ direct.fn = "inputs"
    /\ direct' = [direct EXCEPT !.fn = "edge_off_ratio",
                                !.result = edge_off_ratio(direct.tracker)]
    /\ UNCHANGED not_direct_vars

NextNeutral == Classify \/ WinRate \/ EdgeOffRatio

SpecNeutral == InitNeutral /\ [][NextNeutral]_vars

\* ------------------------------------- claims on the arithmetic edge cases
IsZero(v) == ~v.raised /\ v.num = 0
IsOne(v) == ~v.raised /\ v.num = v.den

\* the first close of the trend window is 0
WindowStartsAtZero ==
    /\ Len(direct.candles) >= direct.detector.trend_window
    /\ direct.candles[Len(direct.candles) - direct.detector.trend_window + 1].close = 0

\* the highs and lows of the trend window span no range
WindowHasNoRange ==
    LET w == LastWindow(direct.candles, direct.detector.trend_window)
    IN  \/ w = <<>>
        \/ MaxOf(Highs(w)) - MinOf(Lows(w)) <= 0

\* C24: the arithmetic edge cases give neutral defaults and never raise:
\* classify returns volatility 0 with fewer than volatility_window + 1
\* closes, trend_strength 0 with fewer than trend_window closes or with a
\* window whose first close is 0, range_ratio 1.0 with an empty window or
\* with max high - min low <= 0; win_rate is 0 with no closed trade and
\* edge_off_ratio is 0 with no recorded tick.
C24_NeutralDefaults ==
    /\ direct.fn # "inputs" => ~direct.result.raised
    /\ direct.fn = "classify" =>
          /\ Len(direct.candles) < direct.detector.volatility_window + 1 =>
                 IsZero(direct.result.volatility)
          /\ Len(direct.candles) < direct.detector.trend_window =>
                 IsZero(direct.result.trend_strength)
          /\ WindowStartsAtZero => IsZero(direct.result.trend_strength)
          /\ WindowHasNoRange => IsOne(direct.result.range_ratio)
    /\ (direct.fn = "win_rate" /\ direct.tracker.trades_closed = 0) =>
          IsZero(direct.result)
    /\ (direct.fn = "edge_off_ratio" /\ direct.tracker.total_ticks = 0) =>
          IsZero(direct.result)

\* C24 witness: classify was called on a full window whose first close is
\* 0 and in which a return is taken from a close of 0.
C24_Witness ==
    /\ direct.fn = "classify"
    /\ Len(direct.candles) = MaxHist
    /\ direct.detector.trend_window = MaxHist
    /\ direct.detector.volatility_window = MaxHist - 1
    /\ direct.candles[1].close = 0 /\ direct.candles[2].close = 0
    /\ direct.candles[3].close = 2
    /\ IsZero(direct.result.trend_strength)

\* C24, further cases: no history at all; a window with its highs below its
\* lows; win_rate with no closed trade; edge_off_ratio with no tick.
C24_WitnessNoHistory ==
    /\ direct.fn = "classify"
    /\ direct.candles = <<>>
    /\ IsZero(direct.result.volatility) /\ IsOne(direct.result.range_ratio)

C24_WitnessNoRange ==
    /\ direct.fn = "classify"
    /\ Len(direct.candles) = 1
    /\ direct.candles[1].high < direct.candles[1].low
    /\ IsOne(direct.result.range_ratio)

C24_WitnessWinRate ==
    /\ direct.fn = "win_rate"
    /\ direct.tracker.trades_closed = 0 /\ direct.tracker.total_ticks > 0

C24_WitnessEdgeOffRatio ==
    /\ direct.fn = "edge_off_ratio"
    /\ direct.tracker.total_ticks = 0 /\ direct.tracker.trades_closed > 0

\* A volatility that is not a default: the mean of the absolute returns.
VolatilityIsMeanReturn ==
    /\ direct.fn = "classify"
    /\ Closes(direct.candles) = <<1, 2, 1>>
    /\ direct.detector.volatility_window = 2
    /\ direct.result.volatility.num * 4 = 3 * direct.result.volatility.den

\* ====================================================================
\* step() against run(): two engines are built from one configuration
\* (the same seed and starting balance) and fed the same candles, one by
\* calls of step(), one by the loop of run().  After n candles the first
\* has had n calls of step() and the second is run() with max_ticks = n, or
\* where run() stopped before.
\* ====================================================================
not_twin_vars == <<core_vars, direct, pnl_obs, pc, tick, live, hist, drv, feed>>

InitTwin ==
    /\ \E seed \in Seeds, start_usdt \in InitialBalances :
          LET engine == [broker |-> NewBroker(seed),
                         balance |-> NewBalance(start_usdt * MoneyScale),
                         pnl |-> NewPnL(start_usdt * MoneyScale),
                         limiter |-> NewLimiter(max_signals_per_regime,
                                                max_trades_per_day),
                         last |-> NoTick]
          IN  twin = [step |-> engine, run |-> engine, run_state |-> "running",
                      n |-> 0, denied_at |-> 0]
    /\ CoreIdle
    /\ direct = None /\ pnl_obs = None /\ pc = None /\ tick = None
    /\ live = None /\ hist = None /\ drv = None /\ feed = None

\* A loop that goes on after the daily limit has denied.
LoopGoesOn(r) == "running"

\* if not can_trade: ... break
LoopAfter(r) == IF r.last.log = "daily_limit_stop" THEN "done" ELSE "running"

\* The next candle: step() is called on the first engine; the loop of run()
\* takes the candle unless it has ended.
TwinTick ==
    /\ twin.n < MaxTwinTicks
    /\ \E close \in Prices, regime \in Regimes, fires \in BOOLEAN, oid1 \in OrderIds :
          \E oid2 \in OrderIds \ {oid1} :
          \E s \in {ProcessTick(twin.step, close, regime, fires, oid1, oid2)},
             r \in {ProcessTick(twin.run, close, regime, fires, oid1, oid2)} :
              twin' = [step |-> s,
                       run |-> IF twin.run_state = "running" THEN r ELSE twin.run,
                       run_state |-> IF twin.run_state = "running"
                                     THEN LoopAfter(r) ELSE "done",
                       n |-> twin.n + 1,
                       denied_at |-> IF twin.denied_at = 0 /\ s.last.denied
                                     THEN twin.n + 1 ELSE twin.denied_at]
    /\ UNCHANGED not_twin_vars

NextTwin == TwinTick

SpecTwin == InitTwin /\ [][NextTwin]_vars

\* ---------------------------------------- claims on step() against run()
\* position, balances, ledger statistics and limiter counters agree
SameEngineState ==
    /\ twin.step.broker = twin.run.broker
    /\ twin.step.balance = twin.run.balance
    /\ twin.step.pnl = twin.run.pnl
    /\ twin.step.limiter = twin.run.limiter

\* C26: step() is exactly one iteration of the loop of run(): n calls of
\* step() on a fresh engine leave position, balances, ledger statistics and
\* limiter counters as run() with max_ticks = n does on an engine configured
\* alike and fed the same candles, also on and after a tick where the daily
\* limit denies.
C26_StepIsOneRunIteration ==
    SameEngineState

\* The same up to and on the first tick where the daily limit denies.
SameUntilDenied ==
    (twin.denied_at = 0 \/ twin.denied_at = twin.n) => SameEngineState

\* Three candles without a denial, an entry among them, and the engines agree.
TwinsAgreeAfterEntry ==
    /\ twin.n = MaxTwinTicks /\ twin.denied_at = 0
    /\ twin.step.last.entry_fills > 0
    /\ SameEngineState

\* The daily limit denied on the second candle; step() has processed the
\* third, run() has not.
StepGoesOnWhereRunStopped ==
    /\ twin.denied_at = 2 /\ twin.n = 3
    /\ twin.run_state = "done"
    /\ twin.step.pnl.total_ticks = 3 /\ twin.run.pnl.total_ticks = 2

\* After the denial step() has closed the position that run() left open.
StepTradesWhereRunStopped ==
    /\ twin.denied_at > 0 /\ twin.denied_at < twin.n
    /\ ~IsSome(twin.step.broker.position) /\ IsSome(twin.run.broker.position)

\* ====================================================================
\* One PaperBroker driven directly by try_open_long and check_exit, on
\* prices that the slippage and the take-profit and stop-loss percentages
\* divide without remainder: an entry at 200000 is filled at 202000 and has
\* its take-profit price at 212100 and its stop-loss price at 191900.
\* ====================================================================
OpenInputs == [op : {"try_open_long"}, price : {1000, 200000}, qty : QtyInputs]
ExitInputs == [op : {"check_exit"},
               price : {900, 1000, 1100, 191900, 200000, 212100}, qty : {0}]

InitFill ==
    /\ \E seed \in Seeds : broker = NewBroker(seed)
    /\ calls = <<>>
    /\ mode = "direct"
    /\ run_state = "running"
    /\ balance = None /\ pnl = None /\ limiter = None /\ last = None
    /\ broker2 = None /\ calls2 = None /\ lim_obs = None /\ daily = None
    /\ AuxIdle

not_fill_vars == <<mode, run_state, balance, pnl, limiter, last, broker2, calls2,
                   lim_obs, daily, aux_vars>>

\* the ts-th call gets the order id ts
OpenLong ==
    \E c \in OpenInputs :
        /\ Len(calls) < MaxFillCalls
        /\ broker' = ApplyCall(broker, c, Len(calls) + 1, Len(calls) + 1).after
        /\ calls' = Append(calls, ApplyCall(broker, c, Len(calls) + 1, Len(calls) + 1))
        /\ UNCHANGED not_fill_vars

Exit ==
    \E c \in ExitInputs :
        /\ Len(calls) < MaxFillCalls
        /\ broker' = ApplyCall(broker, c, Len(calls) + 1, Len(calls) + 1).after
        /\ calls' = Append(calls, ApplyCall(broker, c, Len(calls) + 1, Len(calls) + 1))
        /\ UNCHANGED not_fill_vars

NextFill == OpenLong \/ Exit

SpecFill == InitFill /\ [][NextFill]_vars

\* ----------------------------------------- claims on exits and on fills
\* C27: check_exit returns no fill and changes nothing when FLAT; when LONG
\* it triggers take_profit iff market_price >= tp_price, otherwise
\* stop_loss iff market_price <= sl_price, and otherwise returns no fill and
\* leaves position and generator state as they were; tp_price and sl_price
\* are fill_price * (1 + tp_pct) and fill_price * (1 - sl_pct) of the
\* slipped entry fill price, and the position's quantity is the filled
\* quantity, not the requested one.
C27_ExitTriggers ==
    \A e \in Entries(calls) :
        /\ (e.call.op = "check_exit" /\ Flat(e.before)) =>
               /\ e.fill = None /\ e.reason = None
               /\ e.after = e.before
        /\ (e.call.op = "check_exit" /\ ~Flat(e.before)) =>
               LET pos == Get(e.before.position)
                   tp == e.call.price * PctDen >= pos.tp_price
                   sl == e.call.price * PctDen <= pos.sl_price
               IN  /\ e.reason = Some("take_profit") <=> tp
                   /\ e.reason = Some("stop_loss") <=> (~tp /\ sl)
                   /\ IsSome(e.fill) <=> (tp \/ sl)
                   /\ (~tp /\ ~sl) => (e.reason = None /\ e.after = e.before)
        /\ Opened(e) =>
               LET pos == Get(e.after.position)
                   fill == Get(e.fill)
               IN  /\ fill.price * BpsDen = e.call.price * (BpsDen + slippage_bps)
                   /\ pos.entry_price = fill.price
                   /\ pos.tp_price = fill.price * (PctDen + take_profit_pct)
                   /\ pos.sl_price = fill.price * (PctDen - stop_loss_pct)
                   /\ pos.qty = fill.qty

\* C27 witness: a partially filled entry, then a check_exit between the two
\* trigger prices, then one exactly at the take-profit price.
C27_Witness ==
    /\ Len(calls) = 3
    /\ Opened(calls[1]) /\ Get(calls[1].fill).is_partial
    /\ Get(calls[1].fill).qty < calls[1].call.qty
    /\ calls[2].call.op = "check_exit" /\ calls[2].fill = None
    /\ ~Flat(calls[2].before)
    /\ calls[3].reason = Some("take_profit")
    /\ calls[3].call.price * PctDen = Get(calls[3].before.position).tp_price

\* C27, further cases: a stop-loss exactly at the stop-loss price, and a
\* check_exit while FLAT.
C27_WitnessStopLoss ==
    \E e \in Entries(calls) :
        /\ e.reason = Some("stop_loss")
        /\ e.call.price * PctDen = Get(e.before.position).sl_price

C27_WitnessFlat ==
    /\ Len(calls) = 3
    /\ Closed(calls[2])
    /\ calls[3].call.op = "check_exit" /\ calls[3].fill = None

\* the side, price and quantity of the order behind the fill of call e
OrderOf(e) ==
    IF e.call.op = "try_open_long"
    THEN [side |-> "BUY", price |-> e.call.price, qty |-> e.call.qty]
    ELSE [side |-> "SELL", price |-> e.call.price,
          qty |-> Get(e.before.position).qty]

\* C28: every simulated fill has its price slipped against the order by
\* slippage_bps / 10000 (up for BUY, down for SELL), fee = fill price *
\* filled quantity * fee_rate, and a filled quantity that is the requested
\* one when the fill is not partial and the requested one times a ratio in
\* the configured [min, max] when it is; with 0 < min <= max <= 1 the filled
\* quantity is above 0 and never above the requested one.
C28_FillPriceFeeQuantity ==
    \A e \in Entries(calls) :
        IsSome(e.fill) =>
            LET fill == Get(e.fill)
                order == OrderOf(e)
            IN  /\ order.side = "BUY" =>
                       /\ fill.price >= order.price
                       /\ fill.price * BpsDen = order.price * (BpsDen + slippage_bps)
                /\ order.side = "SELL" =>
                       /\ fill.price <= order.price
                       /\ fill.price * BpsDen = order.price * (BpsDen - slippage_bps)
                /\ fill.fee * PctDen = Notional(fill.price, fill.qty) * fee_rate
                /\ ~fill.is_partial => fill.qty = order.qty
                /\ fill.is_partial =>
                       \E ratio \in min_partial_fill_ratio..max_partial_fill_ratio :
                           fill.qty * RatioDen = order.qty * ratio
                /\ fill.qty > 0 /\ fill.qty <= order.qty

\* C28 witness: a BUY fill that is not partial, a partial SELL fill of the
\* position it opened, and a partial BUY fill.
C28_Witness ==
    /\ Len(calls) = 3
    /\ Opened(calls[1]) /\ ~Get(calls[1].fill).is_partial
    /\ Closed(calls[2]) /\ Get(calls[2].fill).is_partial
    /\ Get(calls[2].fill).qty < Get(calls[1].fill).qty
    /\ Opened(calls[3]) /\ Get(calls[3].fill).is_partial
    /\ Get(calls[3].fill).qty < calls[3].call.qty

\* C28, further case: a BUY fill and a SELL fill, neither partial.
C28_WitnessFull ==
    /\ Len(calls) >= 2
    /\ Opened(calls[1]) /\ ~Get(calls[1].fill).is_partial
    /\ Closed(calls[2]) /\ ~Get(calls[2].fill).is_partial

\* ====================================================================
\* LiveMarketFeed on its own: trade messages arrive in any order of
\* timestamps, _handle_message folds them into candles, and a consumer
\* takes completed candles with next_candle.  Timestamps are in seconds,
\* a candle's ts is the start of its bucket.
\* ====================================================================
\* msg["T"], in milliseconds, and msg["p"]
TradeStamps == {0, 1500, 2000, 3999, 4000, 6000}
TradePrices == {1, 2}
FeedIntervals == {2}
FeedCapacities == {1, 2}

_new_candle(price, timestamp) ==
    [ts |-> timestamp, open |-> price, high |-> price, low |-> price,
     close |-> price, volume |-> 1]

\* asyncio.Queue: a maxsize of zero or less means no limit.
QueueIsFull(queue, maxsize) == maxsize > 0 /\ Len(queue) >= maxsize

put_nowait(queue, maxsize, candle) ==
    IF QueueIsFull(queue, maxsize)
    THEN [queue |-> queue, raised |-> "QueueFull"]
    ELSE [queue |-> Append(queue, candle), raised |-> "none"]

get_nowait(queue) ==
    IF queue = <<>>
    THEN [queue |-> queue, raised |-> "QueueEmpty"]
    ELSE [queue |-> Tail(queue), raised |-> "none"]

\* deque(maxlen = max_candles).append
DequeAppend(candles, maxlen, candle) ==
    IF maxlen = 0 THEN candles
    ELSE IF Len(candles) >= maxlen THEN Append(Tail(candles), candle)
    ELSE Append(candles, candle)

\* The QueueEmpty of get_nowait is swallowed; a QueueFull of the second
\* put_nowait would leave the method.
_enqueue_candle(f, candle) ==
    LET f1 == [f EXCEPT !.candles = DequeAppend(f.candles, f.max_candles, candle)]
        put == put_nowait(f1.queue, f1.max_candles, candle)
    IN  IF put.raised = "none"
        THEN [f1 EXCEPT !.queue = put.queue]
        ELSE LET got == get_nowait(f1.queue)
                 again == put_nowait(got.queue, f1.max_candles, candle)
             IN  [f1 EXCEPT !.queue = again.queue, !.raised = again.raised]

\* An update that closes the current candle on any trade of another bucket.
_update_candle_any_bucket(f, price, timestamp) ==
    LET candle_start == timestamp - (timestamp % f.candle_interval)
    IN  IF f.current_candle = None
        THEN [f EXCEPT !.current_candle = Some(_new_candle(price, candle_start))]
        ELSE LET cur == Get(f.current_candle)
             IN  IF candle_start # cur.ts
                 THEN [_enqueue_candle(f, cur) EXCEPT
                           !.current_candle = Some(_new_candle(price, candle_start))]
                 ELSE [f EXCEPT !.current_candle =
                          Some([cur EXCEPT !.high = Max(@, price),
                                           !.low = Min(@, price),
                                           !.close = price, !.volume = @ + 1])]

_update_candle(f, price, timestamp) ==
    LET candle_start == timestamp - (timestamp % f.candle_interval)
    IN  IF f.current_candle = None
        THEN [f EXCEPT !.current_candle = Some(_new_candle(price, candle_start))]
        ELSE LET cur == Get(f.current_candle)
                 current_start == cur.ts
             IN  IF candle_start > current_start
                 THEN [_enqueue_candle(f, cur) EXCEPT
                           !.current_candle = Some(_new_candle(price, candle_start))]
                 ELSE [f EXCEPT !.current_candle =
                          Some([ts |-> cur.ts, open |-> cur.open,
                                high |-> Max(cur.high, price),
                                low |-> Min(cur.low, price),
                                close |-> price, volume |-> cur.volume + 1])]

\* price = float(msg["p"]); timestamp = int(msg["T"]) // 1000
_handle_message(f, msg) == _update_candle(f, msg.p, msg.T \div 1000)

not_feed_vars == <<core_vars, direct, pnl_obs, pc, tick, live, hist, drv, twin>>

\* delivered: what next_candle has returned so far; n: messages handled;
\* op, before: the last operation and the queue it found; completed: the
\* candle that the last message closed, if it closed one.
InitFeed ==
    /\ \E interval \in FeedIntervals, capacity \in FeedCapacities :
          feed = [candle_interval |-> interval, max_candles |-> capacity,
                  candles |-> <<>>, current_candle |-> None, queue |-> <<>>,
                  raised |-> "none", delivered |-> <<>>, n |-> 0,
                  op |-> "none", before |-> <<>>, completed |-> None]
    /\ CoreIdle
    /\ direct = None /\ pnl_obs = None /\ pc = None /\ tick = None
    /\ live = None /\ hist = None /\ drv = None /\ twin = None

\* connect(): async for message in ws: self._handle_message(json.loads(message))
HandleMessage ==
    /\ feed.n < MaxFeedMsgs
    /\ feed.raised = "none"
    /\ \E T \in TradeStamps, p \in TradePrices :
          \E f \in {_handle_message(feed, [T |-> T, p |-> p])} :
              feed' = [f EXCEPT !.n = @ + 1, !.op = "_handle_message",
                                !.before = feed.queue,
                                !.completed =
                                    IF f.candles # feed.candles
                                    THEN Some(f.candles[Len(f.candles)])
                                    ELSE None]
    /\ UNCHANGED not_feed_vars

\* next_candle(): await self._candle_queue.get(), which waits while the
\* queue is empty.
NextCandle ==
    /\ feed.queue # <<>>
    /\ feed' = [feed EXCEPT !.queue = Tail(@),
                            !.delivered = Append(@, Head(feed.queue)),
                            !.op = "next_candle", !.before = feed.queue,
                            !.completed = None]
    /\ UNCHANGED not_feed_vars

NextFeed == HandleMessage \/ NextCandle

SpecFeed == InitFeed /\ [][NextFeed]_vars

\* ------------------------------------------------ claims on the live feed
StrictlyIncreasing(candles) ==
    \A i \in 1 .. Len(candles) - 1 : candles[i].ts < candles[i + 1].ts

\* The last message completed a candle.
CompletedCandle == feed.op = "_handle_message" /\ IsSome(feed.completed)

\* The last message completed a candle and found the queue full.
CompletedOnFullQueue ==
    CompletedCandle /\ Len(feed.before) = feed.max_candles

\* C30: next_candle delivers completed candles in strictly increasing
\* timestamp order for any sequence of trade messages, those of an earlier
\* bucket than the current candle included; the candle queue never holds
\* more than max_candles entries; enqueuing never raises; a completed
\* candle goes to the end of the queue, and when the queue is full it takes
\* the place of the oldest undelivered one, the others keeping their order.
C30_FeedOrderAndBound ==
    /\ StrictlyIncreasing(feed.delivered \o feed.queue)
    /\ Len(feed.queue) <= feed.max_candles
    /\ feed.raised = "none"
    /\ CompletedCandle =>
          feed.queue = Append(IF CompletedOnFullQueue THEN Tail(feed.before)
                              ELSE feed.before,
                              Get(feed.completed))

\* C30 witness: with room for two candles and two candles waiting, the
\* last message completed a third one; the oldest was dropped, and the
\* queue holds the second and the newest.
C30_Witness ==
    /\ CompletedOnFullQueue
    /\ feed.max_candles = 2
    /\ feed.queue = <<feed.before[2], Get(feed.completed)>>
    /\ feed.before[1].ts < feed.before[2].ts
    /\ feed.before[2].ts < Get(feed.completed).ts

\* The same with room for one candle, after a delivery.
C30_WitnessAfterDelivery ==
    /\ CompletedOnFullQueue
    /\ feed.max_candles = 1
    /\ Len(feed.delivered) = 1
    /\ feed.queue = <<Get(feed.completed)>>

\* A trade of an earlier bucket than the current candle was folded into the
\* current candle: two trades, no candle completed, the candle of bucket 2.
C30_WitnessEarlierBucket ==
    /\ feed.n = 3
    /\ feed.op = "_handle_message"
    /\ IsSome(feed.current_candle)
    /\ Get(feed.current_candle).ts = 2
    /\ Get(feed.current_candle).volume = 2
    /\ Len(feed.candles) = 1
    /\ feed.candles[1].volume = 1

\* Two candles delivered, in the order of their timestamps.
C30_WitnessDelivered ==
    /\ Len(feed.delivered) = 2
    /\ feed.delivered[1].ts < feed.delivered[2].ts

\* ====================================================================
\* The entry of step() on its own, for a range of configurations: a flat
\* engine with a quote balance sizes a signal at a reference price, the
\* broker fills the order, and the cost is taken off the balance.
\* ====================================================================
\* risk_per_trade_pct in percent, min_notional_usdt in money units,
\* fee_rate in percent, slippage_bps in basis points
EntryConfigs ==
    [risk_per_trade_pct : {20, 100}, min_notional_usdt : {0, 10},
     fee_rate : {0, 1}, slippage_bps : {0, 100}]
EntryBalances == {10, 11, 5000, 10000}
EntryPrices == {5, 1000}

InitEntry ==
    /\ \E config \in EntryConfigs, start_usdt \in EntryBalances,
          price \in EntryPrices, seed \in Seeds :
          direct = [fn |-> "entry", config |-> config,
                    usdt_free |-> start_usdt * MoneyScale, ref_price |-> price,
                    rng |-> RngSeed(seed), result |-> None]
    /\ CoreIdle
    /\ pnl_obs = None /\ pc = None /\ tick = None /\ live = None /\ hist = None
    /\ MoreIdle

\* qty = self.sizer.size(...); if qty <= 0: return;
\* entry_fill = self.broker.try_open_long(...), the broker being flat;
\* cost = entry_fill.price * entry_fill.qty + entry_fill.fee;
\* self.balance.usdt_free -= cost
Enter ==
    /\ direct.fn = "entry"
    /\ direct.result = None
    /\ LET c == direct.config
           qty == SizeWith(c.risk_per_trade_pct, c.min_notional_usdt,
                           direct.usdt_free, direct.ref_price)
           order == build_limit_order(1, 1, "BUY", direct.ref_price, qty)
           sf == FillAt(c.fee_rate,
                        SlippedPriceAt(c.slippage_bps, "BUY", direct.ref_price),
                        [position |-> None, rng |-> direct.rng], order)
       IN  direct' = [direct EXCEPT !.result =
                         IF qty <= 0
                         THEN Some([qty |-> qty, fill |-> None, cost |-> 0,
                                    usdt_free |-> direct.usdt_free])
                         ELSE Some([qty |-> qty, fill |-> Some(sf.fill),
                                    cost |-> Cost(sf.fill),
                                    usdt_free |-> direct.usdt_free - Cost(sf.fill)])]
    /\ UNCHANGED not_direct_vars

NextEntry == Enter

SpecEntry == InitEntry /\ [][NextEntry]_vars

\* ------------------------------------------------ claims on the entry
Entered == IsSome(direct.result) /\ IsSome(Get(direct.result).fill)

\* C31: for every configuration with 0 < risk_per_trade_pct <= 1,
\* min_notional >= 0, fee_rate >= 0 and slippage_bps >= 0, the cost debited
\* for an entry (slipped price * filled quantity + fee) never exceeds the
\* quote balance that PositionSizer.size was given, and the quote balance
\* is not negative afterwards.
C31_EntryCostWithinBalance ==
    Entered =>
        /\ Get(direct.result).cost <= direct.usdt_free
        /\ Get(direct.result).usdt_free >= 0

\* What the sizer does ensure: the filled quantity at the reference price
\* is worth no more than the balance, so that an entry without fee and
\* slippage costs no more than the balance.
EntryValueWithinBalance ==
    Entered =>
        /\ Notional(direct.ref_price, Get(Get(direct.result).fill).qty)
               <= direct.usdt_free
        /\ (direct.config.fee_rate = 0 /\ direct.config.slippage_bps = 0) =>
               Get(direct.result).cost <= direct.usdt_free

\* The whole balance risked, filled in full with fee and slippage: the
\* balance of 10000 is overdrawn.
EntryOverdrawsBalance ==
    /\ Entered
    /\ direct.config.risk_per_trade_pct = 100
    /\ direct.config.fee_rate > 0 /\ direct.config.slippage_bps > 0
    /\ direct.usdt_free = 10000 * MoneyScale
    /\ ~Get(Get(direct.result).fill).is_partial
    /\ Get(direct.result).usdt_free < 0

\* A fifth of the balance risked, the notional raised to min_notional, which
\* is the whole balance: overdrawn as well.
EntryAtMinNotionalOverdraws ==
    /\ Entered
    /\ direct.config.risk_per_trade_pct = 20
    /\ direct.config.min_notional_usdt * MoneyScale = direct.usdt_free
    /\ Get(direct.result).usdt_free < 0

\* A fifth of a balance of 10000 risked: the cost stays within the balance.
EntryWithinBalance ==
    /\ Entered
    /\ direct.config.risk_per_trade_pct = 20
    /\ direct.config.fee_rate > 0 /\ direct.config.slippage_bps > 0
    /\ direct.usdt_free = 10000 * MoneyScale
    /\ Get(direct.result).cost > 0
    /\ Get(direct.result).cost <= direct.usdt_free

\* ====================================================================
\* Invariants of the engine at tick boundaries: every state of Spec and
\* of SpecTrip is one, a tick being one step.
\* ====================================================================
Long == IsSome(broker.position)

\* C32: at every tick boundary the base balance (btc_free) equals the open
\* position's quantity when the broker is LONG and is 0 when the broker is
\* FLAT, whatever partial fills are drawn on entries and exits.
C32_BaseBalanceIsPosition ==
    balance.btc_free = IF Long THEN Get(broker.position).qty ELSE 0

\* The part that holds: the base balance of a LONG broker is the position's
\* quantity plus what earlier partial exits left unsold, and that of a FLAT
\* one is zero as long as no exit was filled in part.
BaseBalanceCoversPosition ==
    /\ balance.btc_free >= 0
    /\ Long => balance.btc_free >= Get(broker.position).qty

\* An exit was just filled in part: the broker is FLAT and the unsold rest
\* of the position is still in the base balance.
FlatWithBaseLeft ==
    /\ ~Long
    /\ IsSome(last.exit) /\ Get(last.exit).is_partial
    /\ ~IsSome(last.entry)
    /\ balance.btc_free > 0

\* A position opened on top of such a rest.
LongWithBaseAbovePosition ==
    /\ Long
    /\ balance.btc_free > Get(broker.position).qty

\* An exit filled in full has emptied the base balance.
FlatAfterFullExit ==
    /\ ~Long
    /\ IsSome(last.exit) /\ ~Get(last.exit).is_partial
    /\ balance.btc_free = 0

PendingEntryValue == IF IsSome(pnl.entry_value) THEN Get(pnl.entry_value) ELSE 0

\* C33: at every tick boundary the quote balance equals the initial quote
\* balance plus realized_pnl minus the pending entry value (0 when no entry
\* is pending); in particular, whenever the broker is FLAT,
\* usdt_free = initial balance + realized_pnl.
C33_QuoteBalanceIsLedger ==
    /\ balance.usdt_free
           = balance.day_start_equity + pnl.realized_pnl - PendingEntryValue
    /\ ~Long => balance.usdt_free = balance.day_start_equity + pnl.realized_pnl

\* C33 witness: a trade was closed at a loss and another position is open,
\* its cost pending; the quote balance is down by both.
C33_Witness ==
    /\ Long
    /\ pnl.trades_closed = 1
    /\ pnl.realized_pnl < 0
    /\ PendingEntryValue > 0
    /\ balance.usdt_free
           = balance.day_start_equity + pnl.realized_pnl - PendingEntryValue

\* The FLAT case: a trade closed, nothing pending.
C33_WitnessFlat ==
    /\ ~Long
    /\ pnl.trades_closed = 1
    /\ pnl.realized_pnl # 0
    /\ balance.usdt_free = balance.day_start_equity + pnl.realized_pnl

\* C34: at every tick boundary the limiter's trade counter minus the
\* ledger's trades_closed is 1 when the broker is LONG and 0 when it is
\* FLAT: every counted entry is matched by exactly one counted close, and
\* no close is counted without an entry before it.
C34_EntriesMatchCloses ==
    /\ limiter.trade_count - pnl.trades_closed = (IF Long THEN 1 ELSE 0)
    /\ pnl.trades_closed <= limiter.trade_count

\* C34 witness: two entries counted, one close counted, the second position
\* open.
C34_Witness ==
    /\ Long
    /\ limiter.trade_count = 2
    /\ pnl.trades_closed = 1

\* FLAT after one round trip.
C34_WitnessFlat ==
    /\ ~Long
    /\ limiter.trade_count = 1
    /\ pnl.trades_closed = 1

\* ====================================================================
\* Counters of the ledger, over the call sequences of SpecPnl.
\* ====================================================================
LedgerCounters ==
    {"wins", "losses", "trades_closed", "daily_trade_count",
     "edge_off_ticks", "total_ticks"}

\* C35: in every reachable ledger state wins + losses = trades_closed =
\* daily_trade_count and edge_off_ticks <= total_ticks, and no call makes
\* any of these counters smaller or sets it back.
C35_LedgerCounters ==
    /\ pnl.wins + pnl.losses = pnl.trades_closed
    /\ pnl.trades_closed = pnl.daily_trade_count
    /\ pnl.edge_off_ticks <= pnl.total_ticks
    /\ \A f \in LedgerCounters : pnl[f] >= pnl_obs.before[f] /\ pnl[f] >= 0

\* C35 witness: a win and a loss were booked, the second by the last call:
\* two trades closed and counted for the day.
C35_Witness ==
    /\ pnl.wins = 1 /\ pnl.losses = 1
    /\ pnl.trades_closed = 2 /\ pnl.daily_trade_count = 2
    /\ pnl_obs.call = "mark_exit"
    /\ pnl_obs.before.trades_closed = 1

\* Ticks with the edge on and off: the edge-off count stays behind.
C35_WitnessTicks ==
    /\ pnl.total_ticks = 3
    /\ pnl.edge_off_ticks = 1
    /\ pnl_obs.call = "mark_edge_state"

\* ====================================================================
\* Properties of the engine over a run: steps of Spec and of SpecTrip.
\* ====================================================================
DailyTradesExhausted == limiter.trade_count >= limiter.max_trades_per_day

\* The tick of the step opened no position and allowed no signal.
TickOpensNothing ==
    /\ ~IsSome(last'.entry)
    /\ IsSome(last'.allow) => ~Get(last'.allow).allowed
    /\ IsSome(broker'.position) => broker'.position = broker.position

\* C36: over any run the number of entry fills never exceeds
\* max_trades_per_day: the limiter's trade counter is never set back, and
\* once it has reached max_trades_per_day every later allow_signal is denied
\* and no further position is opened, whatever the regime key.
C36_EntriesWithinDailyLimit ==
    /\ [](/\ last.entry_fills <= limiter.max_trades_per_day
          /\ limiter.trade_count = last.entry_fills)
    /\ [][ /\ limiter'.trade_count >= limiter.trade_count
           /\ DailyTradesExhausted =>
                  (limiter'.trade_count = limiter.trade_count /\ TickOpensNothing)
         ]_vars

\* C36 witness: two entries were filled, the second position was closed by
\* the last tick, and the signal of that tick, the engine FLAT and the edge
\* on, was denied by the daily trade limit.
C36_Witness ==
    /\ last.entry_fills = max_trades_per_day
    /\ DailyTradesExhausted
    /\ ~Long
    /\ IsSome(last.exit)
    /\ last.edge_on
    /\ IsSome(last.allow) /\ ~Get(last.allow).allowed
    /\ last.log = "daily_trade_limit"

\* The same with a regime key that had no attempt before.
C36_WitnessNewKey ==
    /\ DailyTradesExhausted
    /\ last.log = "daily_trade_limit"
    /\ limiter.regime_attempts = 0
    /\ limiter.last_regime_key = last.key

\* The position the broker holds was opened by the last tick.
OpenedByLastTick ==
    /\ IsSome(last.entry)
    /\ Long
    /\ Get(broker.position).entry_ts = last.ts
    /\ Get(broker.position).qty = Get(last.entry).qty

\* C37: within one tick there is at most one exit fill and at most one
\* entry fill, and the exit check precedes the entry; a tick that closed a
\* position goes on to the signal, finds the broker FLAT there and can open
\* a new position; a position opened on a tick is not exit-checked before
\* the next tick.
C37_ExitBeforeEntry ==
    /\ Count(last.trace, "check_exit") <= 1
    /\ Count(last.trace, "mark_exit") <= 1
    /\ Count(last.trace, "try_open_long") <= 1
    /\ Count(last.trace, "mark_entry") <= 1
    /\ IsSome(last.exit) <=> Has(last.trace, "mark_exit")
    /\ IsSome(last.entry) <=> Has(last.trace, "mark_entry")
    /\ Has(last.trace, "try_open_long") =>
          /\ Has(last.trace, "check_exit")
          /\ Index(last.trace, "check_exit") < Index(last.trace, "try_open_long")
    /\ IsSome(last.exit) =>
          /\ Index(last.trace, "mark_exit") < Index(last.trace, "generate")
          /\ ~last.position_open
          /\ last.log \in {"no_signal", "edge_off", "regime_attempt_limit",
                           "daily_trade_limit", "insufficient_balance",
                           "entry", "entry_rejected"}
    /\ IsSome(last.entry) => OpenedByLastTick

\* C37 witness: the last tick closed a position and opened the next one.
C37_Witness ==
    /\ IsSome(last.exit)
    /\ OpenedByLastTick
    /\ last.ts > 1
    /\ Index(last.trace, "mark_exit") < Index(last.trace, "try_open_long")

\* ====================================================================
\* The daily stop over a run, on the two engines of SpecTwin:
\* twin.denied_at is the first tick on which can_continue denied.
\* ====================================================================
DeniedBefore == twin.denied_at > 0

\* The tick of the step neither opened nor closed a position on engine e.
NoTradeOn(e) ==
    /\ twin'[e].broker.position = twin[e].broker.position
    /\ twin'[e].balance.btc_free = twin[e].balance.btc_free
    /\ twin'[e].limiter.trade_count = twin[e].limiter.trade_count
    /\ twin'[e].pnl.trades_closed = twin[e].pnl.trades_closed

C38_WitnessEntry ==
    /\ DeniedBefore /\ twin.denied_at < twin.n
    /\ IsSome(twin.step.last.entry)
    /\ twin.run.last.denied

\* The denied tick itself, a position open and a trigger price reached:
\* the position stays.
C38_WitnessDeniedTick ==
    /\ twin.step.last.denied /\ twin.denied_at = twin.n
    /\ IsSome(twin.step.broker.position)
    /\ IsSome(ExitReason(Get(twin.step.broker.position), twin.step.last.close))
====
